---- MODULE Spec2Model ----
(***************************************************************************)
(* Model of ruxailab/ai-heuristic-evaluation: the heuristic catalogue,     *)
(* the scorer (HeuristicEvaluationEngine.calculate_score), the context     *)
(* retriever (RAGKnowledgeBase) and the evaluation orchestrator            *)
(* (HeuristicEvaluationEngine.evaluate_interface).                         *)
(*                                                                         *)
(* Python values are modelled as follows: str is a TLA+ string, list a     *)
(* sequence, dict a function; an optional string is the string or None, an *)
(* optional record is <<>> (None) or <<record>>; an exception leaving a    *)
(* function is an outcome record with status "raised".                     *)
(***************************************************************************)
EXTENDS Integers, Sequences, FiniteSets, TLC

VARIABLES
  \* inputs and outcome of the last calculate_score call
  sc_hid, sc_violations, sc_result, sc_appended,
  \* RAGKnowledgeBase: its fields, the retrieve_relevant_context call whose
  \* result the caller holds, and the number of add_expert_feedback calls
  knowledge_entries, index_initialized, kb_call, kb_added,
  \* HeuristicEvaluationEngine.initialized, and the evaluate_interface call:
  \* its position, loop index, locals, returned report or raised error
  engine_initialized, pc, h_index, heuristic_scores, total_violations,
  critical_issues, report, ev_error,
  \* the external calls made so far, and how many of them were not plain
  calls, noisy,
  \* the request a route handler of app/api/routes/evaluation.py is serving,
  \* its response, and the external calls made for it
  rt_request, rt_response, rt_calls,
  \* one _evaluate_with_llm call taken alone: the heuristic, what
  \* chat.completions.create did, and what the method returned or raised
  cl_hid, cl_call, cl_result

None == "<None>"

Max(a, b) == IF a >= b THEN a ELSE b
Min(a, b) == IF a <= b THEN a ELSE b

(***************************************************************************)
(* app/core/constants.py                                                   *)
(***************************************************************************)
\* SeverityLevel: the enum's values, in declaration order
SeverityLevel == <<"critical", "major", "minor", "cosmetic">>
SeverityValues == {SeverityLevel[i] : i \in DOMAIN SeverityLevel}

\* HeuristicId: the enum's values, in declaration order
HeuristicId == <<"H1", "H2", "H3", "H4", "H5", "H6", "H7", "H8", "H9", "H10">>
HeuristicIdValues == {HeuristicId[i] : i \in DOMAIN HeuristicId}

\* NIELSEN_HEURISTICS, keyed by the enum member's value; the "evaluation" and
\* heuristic "description" texts only feed the classifier prompt and are left out
NIELSEN_HEURISTICS ==
  ("H1" :> [name |-> "Visibility of System Status", measurable_criteria |-> <<
       [id |-> "H1.1", description |-> "Loading states visible", severity_weights |-> [critical |-> 10, major |-> 5, minor |-> 2, cosmetic |-> 1]],
       [id |-> "H1.2", description |-> "System feedback for user actions", severity_weights |-> [critical |-> 10, major |-> 6, minor |-> 3, cosmetic |-> 1]],
       [id |-> "H1.3", description |-> "Progress indicators for multi-step processes", severity_weights |-> [critical |-> 8, major |-> 5, minor |-> 2, cosmetic |-> 1]]
     >>])
  @@ ("H2" :> [name |-> "Match Between System and Real World", measurable_criteria |-> <<
       [id |-> "H2.1", description |-> "Use of familiar icons and metaphors", severity_weights |-> [critical |-> 8, major |-> 5, minor |-> 3, cosmetic |-> 1]],
       [id |-> "H2.2", description |-> "Natural language instead of technical terms", severity_weights |-> [critical |-> 6, major |-> 4, minor |-> 2, cosmetic |-> 1]],
       [id |-> "H2.3", description |-> "Information organization follows user mental models", severity_weights |-> [critical |-> 10, major |-> 6, minor |-> 3, cosmetic |-> 1]]
     >>])
  @@ ("H3" :> [name |-> "User Control and Freedom", measurable_criteria |-> <<
       [id |-> "H3.1", description |-> "Undo/redo functionality available", severity_weights |-> [critical |-> 10, major |-> 7, minor |-> 3, cosmetic |-> 1]],
       [id |-> "H3.2", description |-> "Clear navigation exit points", severity_weights |-> [critical |-> 10, major |-> 7, minor |-> 3, cosmetic |-> 1]],
       [id |-> "H3.3", description |-> "Confirmation for destructive actions", severity_weights |-> [critical |-> 10, major |-> 6, minor |-> 2, cosmetic |-> 1]]
     >>])
  @@ ("H4" :> [name |-> "Consistency and Standards", measurable_criteria |-> <<
       [id |-> "H4.1", description |-> "Consistent button dimensions", severity_weights |-> [critical |-> 6, major |-> 4, minor |-> 2, cosmetic |-> 1]],
       [id |-> "H4.2", description |-> "Consistent typography", severity_weights |-> [critical |-> 6, major |-> 4, minor |-> 2, cosmetic |-> 1]],
       [id |-> "H4.3", description |-> "Consistent color usage", severity_weights |-> [critical |-> 8, major |-> 5, minor |-> 2, cosmetic |-> 1]],
       [id |-> "H4.4", description |-> "Consistent terminology", severity_weights |-> [critical |-> 8, major |-> 5, minor |-> 3, cosmetic |-> 1]],
       [id |-> "H4.5", description |-> "Platform conventions followed", severity_weights |-> [critical |-> 10, major |-> 6, minor |-> 3, cosmetic |-> 1]]
     >>])
  @@ ("H5" :> [name |-> "Error Prevention", measurable_criteria |-> <<
       [id |-> "H5.1", description |-> "Input validation before submission", severity_weights |-> [critical |-> 10, major |-> 6, minor |-> 3, cosmetic |-> 1]],
       [id |-> "H5.2", description |-> "Constraints on input fields", severity_weights |-> [critical |-> 8, major |-> 5, minor |-> 2, cosmetic |-> 1]],
       [id |-> "H5.3", description |-> "Confirmation for high-risk actions", severity_weights |-> [critical |-> 10, major |-> 7, minor |-> 3, cosmetic |-> 1]],
       [id |-> "H5.4", description |-> "Default values and suggestions", severity_weights |-> [critical |-> 4, major |-> 3, minor |-> 2, cosmetic |-> 1]],
       [id |-> "H5.5", description |-> "Disable invalid options", severity_weights |-> [critical |-> 6, major |-> 4, minor |-> 2, cosmetic |-> 1]]
     >>])
  @@ ("H6" :> [name |-> "Recognition Rather Than Recall", measurable_criteria |-> <<
       [id |-> "H6.1", description |-> "Menu options visible", severity_weights |-> [critical |-> 8, major |-> 5, minor |-> 3, cosmetic |-> 1]],
       [id |-> "H6.2", description |-> "Contextual help", severity_weights |-> [critical |-> 6, major |-> 4, minor |-> 2, cosmetic |-> 1]]
     >>])
  @@ ("H7" :> [name |-> "Flexibility and Efficiency of Use", measurable_criteria |-> <<
       [id |-> "H7.1", description |-> "Shortcuts and accelerators", severity_weights |-> [critical |-> 4, major |-> 3, minor |-> 2, cosmetic |-> 1]],
       [id |-> "H7.2", description |-> "Customization options", severity_weights |-> [critical |-> 4, major |-> 3, minor |-> 2, cosmetic |-> 1]]
     >>])
  @@ ("H8" :> [name |-> "Aesthetic and Minimalist Design", measurable_criteria |-> <<
       [id |-> "H8.1", description |-> "Minimalist layout", severity_weights |-> [critical |-> 6, major |-> 4, minor |-> 2, cosmetic |-> 1]],
       [id |-> "H8.2", description |-> "High signal-to-noise ratio", severity_weights |-> [critical |-> 6, major |-> 4, minor |-> 2, cosmetic |-> 1]]
     >>])
  @@ ("H9" :> [name |-> "Help Users Recognize, Diagnose, and Recover from Errors", measurable_criteria |-> <<
       [id |-> "H9.1", description |-> "Plain language errors", severity_weights |-> [critical |-> 10, major |-> 6, minor |-> 3, cosmetic |-> 1]],
       [id |-> "H9.2", description |-> "Constructive solutions", severity_weights |-> [critical |-> 10, major |-> 7, minor |-> 3, cosmetic |-> 1]]
     >>])
  @@ ("H10" :> [name |-> "Help and Documentation", measurable_criteria |-> <<
       [id |-> "H10.1", description |-> "Easy to search help", severity_weights |-> [critical |-> 6, major |-> 4, minor |-> 2, cosmetic |-> 1]],
       [id |-> "H10.2", description |-> "Task-focused documentation", severity_weights |-> [critical |-> 6, major |-> 4, minor |-> 2, cosmetic |-> 1]]
     >>])

\* dict.get(key, default)
Get(d, key, default) == IF key \in DOMAIN d THEN d[key] ELSE default

\* NIELSEN_HEURISTICS.get(heuristic_id)
HeuristicDef(heuristic_id) ==
  IF heuristic_id \in DOMAIN NIELSEN_HEURISTICS THEN <<NIELSEN_HEURISTICS[heuristic_id]>> ELSE <<>>

(***************************************************************************)
(* HeuristicEvaluationEngine.calculate_score                               *)
(***************************************************************************)
\* a HeuristicViolation (affected_elements and recommendation are carried
\* through untouched by every operation modelled here and are left out)
HeuristicViolation(heuristic_id, criterion_id, severity, description) ==
  [heuristic_id |-> heuristic_id, criterion_id |-> criterion_id,
   severity |-> severity, description |-> description]

Returned(score, explanation) ==
  [status |-> "returned", score |-> score, explanation |-> explanation, error |-> None]
Raised(error) ==
  [status |-> "raised", score |-> -1, explanation |-> None, error |-> error]

\* HeuristicId(heuristic_id): the enum lookup by value raises ValueError for
\* a string that is no member's value
HeuristicIdLookup(heuristic_id) ==
  IF heuristic_id \in HeuristicIdValues THEN heuristic_id ELSE None

\* next((c for c in criteria if c["id"] == criterion_id), None)
RECURSIVE FindCriterionFrom(_, _, _)
FindCriterionFrom(criteria, criterion_id, i) ==
  IF i > Len(criteria) THEN <<>>
  ELSE IF criteria[i].id = criterion_id THEN <<criteria[i]>>
  ELSE FindCriterionFrom(criteria, criterion_id, i + 1)

FindCriterionOrFirst(criteria, criterion_id) ==
  IF FindCriterionFrom(criteria, criterion_id, 1) = <<>> /\ Len(criteria) > 0
  THEN <<criteria[1]>> ELSE FindCriterionFrom(criteria, criterion_id, 1)

FindCriterion(criteria, criterion_id) == FindCriterionFrom(criteria, criterion_id, 1)

SeverityDeductionFlat(weights, severity) == 1

\* weights.get(violation.severity.value, 1)
SeverityDeduction(weights, severity) == Get(weights, severity, 1)

AccumulateAssign(total_deduction, deduction) == deduction

\* total_deduction += deduction
Accumulate(total_deduction, deduction) == total_deduction + deduction

\* the loop of calculate_score: (total_deduction, explanation_parts) after
\* the first n violations
RECURSIVE ScoreLoop(_, _, _)
ScoreLoop(criteria, violations, n) ==
  IF n = 0 THEN [total_deduction |-> 0, explanation_parts |-> <<>>]
  ELSE LET acc == ScoreLoop(criteria, violations, n - 1)
           violation == violations[n]
           criterion == FindCriterion(criteria, violation.criterion_id)
       IN IF criterion # <<>>
          THEN [total_deduction |-> Accumulate(acc.total_deduction,
                     SeverityDeduction(criterion[1].severity_weights, violation.severity)),
                explanation_parts |-> Append(acc.explanation_parts,
                   violation.severity \o ": " \o violation.description)]
          ELSE acc

FinalScoreUnclamped(total_deduction) == 100 - total_deduction

\* max(0, 100 - total_deduction)
FinalScore(total_deduction) == Max(0, 100 - total_deduction)

RECURSIVE JoinSpace(_, _)
JoinSpace(sep, parts) ==
  IF Len(parts) = 0 THEN ""
  ELSE IF Len(parts) = 1 THEN parts[1]
  ELSE parts[1] \o " " \o JoinSpace(sep, Tail(parts))

\* "; ".join(parts)
RECURSIVE Join(_, _)
Join(sep, parts) ==
  IF Len(parts) = 0 THEN ""
  ELSE IF Len(parts) = 1 THEN parts[1]
  ELSE parts[1] \o sep \o Join(sep, Tail(parts))

ExplanationCountsParts(score, violations, explanation_parts) ==
  "Score " \o ToString(score) \o "/100 - " \o ToString(Len(explanation_parts))
     \o " violations: " \o Join("; ", explanation_parts)

Explanation(score, violations, explanation_parts) ==
  "Score " \o ToString(score) \o "/100 - " \o ToString(Len(violations))
     \o " violations: " \o Join("; ", explanation_parts)

calculate_score(violations, heuristic_id) ==
  IF HeuristicIdLookup(heuristic_id) = None THEN Raised("ValueError")
  ELSE LET heuristic_def == HeuristicDef(HeuristicIdLookup(heuristic_id)) IN
    IF heuristic_def = <<>> THEN Returned(100, "No criteria defined")
    ELSE LET acc == ScoreLoop(heuristic_def[1].measurable_criteria, violations, Len(violations))
             score == FinalScore(acc.total_deduction)
         IN Returned(score, Explanation(score, violations, acc.explanation_parts))

(***************************************************************************)
(* app/services/rag_knowledge_base.py: the seed data                       *)
(***************************************************************************)
SeedEntriesFirstOnly == <<
  [id |-> "kb_001", category |-> "Button Feedback", heuristic_id |-> "H1",
   content |-> "Buttons should provide clear visual feedback on hover, active, and disabled states.",
   example |-> "A primary button changes to darker shade on hover"]>>

\* knowledge_data of _load_knowledge_base (the em dashes of kb_009 are
\* written "--")
SeedEntries == <<
  [id |-> "kb_001", category |-> "Button Feedback", heuristic_id |-> "H1",
   content |-> "Buttons should provide clear visual feedback on hover, active, and disabled states. This helps users understand interactability and system response.",
   example |-> "A primary button changes to darker shade on hover and shows pressed state on click"],
  [id |-> "kb_002", category |-> "Error Prevention", heuristic_id |-> "H3",
   content |-> "Destructive actions like delete should always be preceded by confirmation dialogs to prevent accidental data loss.",
   example |-> "Delete button triggers modal: 'Are you sure you want to delete this item? This action cannot be undone.'"],
  [id |-> "kb_003", category |-> "Form Labels", heuristic_id |-> "H1",
   content |-> "All input fields must have visible labels or placeholders. Placeholders should complement, not replace labels.",
   example |-> "Email field has label 'Email Address' and placeholder 'you@example.com'"],
  [id |-> "kb_004", category |-> "User-Friendly Language", heuristic_id |-> "H2",
   content |-> "Use action-oriented, conversational language that matches user expectations. Avoid technical jargon in user-facing text.",
   example |-> "Use 'Send Message' instead of 'Submit Payload' or 'Create Account' instead of 'Register User'"],
  [id |-> "kb_005", category |-> "Navigation", heuristic_id |-> "H3",
   content |-> "Always provide a clear way to exit or cancel actions. Users should never feel trapped in the interface.",
   example |-> "Multi-step wizard has Back button and Cancel option on all steps"],
  [id |-> "kb_006", category |-> "Consistency", heuristic_id |-> "H4",
   content |-> "Users should not have to wonder whether different words, situations, or actions mean the same thing. Follow platform conventions.",
   example |-> "Use standard platform icons (e.g., magnifying glass for search) and keep terminology consistent (e.g., don't mix 'Delete' and 'Remove')"],
  [id |-> "kb_007", category |-> "Error Prevention", heuristic_id |-> "H5",
   content |-> "Prevent errors from occurring in the first place by using constraints and good defaults.",
   example |-> "Date picker disables past dates for flight departure; numeric fields reject alphabetic characters"],
  [id |-> "kb_008", category |-> "Recognition over Recall", heuristic_id |-> "H6",
   content |-> "Minimize the user's memory load by making objects, actions, and options visible. The user should not have to remember information from one part of the dialogue to another.",
   example |-> "Search bar shows recent searches; Menu items are visible or easily accessible, not hidden deep in sub-menus"],
  [id |-> "kb_009", category |-> "Flexibility and Efficiency", heuristic_id |-> "H7",
   content |-> "Accelerators -- unseen by the novice user -- may often speed up the interaction for the expert user.",
   example |-> "Support keyboard shortcuts (Ctrl+S to save) and allow users to customize their dashboard layout"],
  [id |-> "kb_010", category |-> "Aesthetic and Minimalist Design", heuristic_id |-> "H8",
   content |-> "Dialogues should not contain information which is irrelevant or rarely needed. Every extra unit of information competes with the relevant units.",
   example |-> "Remove rarely used metadata from the main table view; use ample whitespace to group related elements"],
  [id |-> "kb_011", category |-> "Error Recovery", heuristic_id |-> "H9",
   content |-> "Error messages should be expressed in plain language (no codes), precisely indicate the problem, and constructively suggest a solution.",
   example |-> "Instead of 'Error 503', show 'Connection failed. Please check your internet and Try Again'"],
  [id |-> "kb_012", category |-> "Help and Documentation", heuristic_id |-> "H10",
   content |-> "Even though it is better if the system can be used without documentation, it may be necessary to provide help and documentation.",
   example |-> "Provide contextual tooltips for complex settings and a searchable Help Center"]
  >>

(***************************************************************************)
(* Text helpers: str.lower, str.split and the substring test               *)
(***************************************************************************)
LowerMap ==
  [c \in {"A", "B", "C", "D", "E", "F", "G", "H", "I", "J", "K", "L", "M", "N",
          "O", "P", "Q", "R", "S", "T", "U", "V", "W", "X", "Y", "Z"} |->
     CASE c = "A" -> "a" [] c = "B" -> "b" [] c = "C" -> "c" [] c = "D" -> "d"
       [] c = "E" -> "e" [] c = "F" -> "f" [] c = "G" -> "g" [] c = "H" -> "h"
       [] c = "I" -> "i" [] c = "J" -> "j" [] c = "K" -> "k" [] c = "L" -> "l"
       [] c = "M" -> "m" [] c = "N" -> "n" [] c = "O" -> "o" [] c = "P" -> "p"
       [] c = "Q" -> "q" [] c = "R" -> "r" [] c = "S" -> "s" [] c = "T" -> "t"
       [] c = "U" -> "u" [] c = "V" -> "v" [] c = "W" -> "w" [] c = "X" -> "x"
       [] c = "Y" -> "y" [] c = "Z" -> "z"]

CharAt(s, i) == SubSeq(s, i, i)

\* s.lower(), character by character (computed by halving the range, which
\* keeps the evaluation shallow on long texts)
RECURSIVE LowerRange(_, _, _)
LowerRange(s, lo, hi) ==
  IF lo > hi THEN ""
  ELSE IF lo = hi
       THEN (IF CharAt(s, lo) \in DOMAIN LowerMap THEN LowerMap[CharAt(s, lo)] ELSE CharAt(s, lo))
       ELSE LowerRange(s, lo, (lo + hi) \div 2) \o LowerRange(s, (lo + hi) \div 2 + 1, hi)

\* the lowered seed texts, computed once: Lower looks a text up here before
\* lowering it character by character (same value, less work per step)
LowerCache ==
  [t \in {SeedEntries[i].content : i \in DOMAIN SeedEntries}
         \cup {SeedEntries[i].category : i \in DOMAIN SeedEntries} |->
     LowerRange(t, 1, Len(t))]

Lower(s) == IF s \in DOMAIN LowerCache THEN LowerCache[s] ELSE LowerRange(s, 1, Len(s))

Whitespace == {" ", "\t", "\n"}

\* s.split(): the maximal runs of non-whitespace characters, in order
IsSpaceAt(s, i) == CharAt(s, i) \in Whitespace
TokenStarts(s) ==
  {i \in 1..Len(s) : ~IsSpaceAt(s, i) /\ (i = 1 \/ IsSpaceAt(s, i - 1))}
TokenEnd(s, i) ==
  CHOOSE j \in i..Len(s) :
    /\ \A k \in i..j : ~IsSpaceAt(s, k)
    /\ (j = Len(s) \/ IsSpaceAt(s, j + 1))
Split(s) ==
  [n \in 1..Cardinality(TokenStarts(s)) |->
     LET i == CHOOSE i \in TokenStarts(s) :
                Cardinality({j \in TokenStarts(s) : j < i}) = n - 1
     IN SubSeq(s, i, TokenEnd(s, i))]

\* word in text
Contains(text, word) ==
  \E i \in 1..(Len(text) - Len(word) + 1) : SubSeq(text, i, i + Len(word) - 1) = word

\* any(word in text for word in words)
AnyWordIn(words, text) == \E k \in DOMAIN words : Contains(text, words[k])

\* the truth value of an Optional[str]
Truthy(s) == s # None /\ s # ""

(***************************************************************************)
(* app/services/rag_knowledge_base.py                                      *)
(***************************************************************************)
EntryScoreAllWords(entry, query_lower, heuristic_id) ==
    (IF Truthy(heuristic_id) /\ entry.heuristic_id = heuristic_id THEN 3 ELSE 0)
  + (IF \A k \in DOMAIN Split(query_lower) :
          Contains(Lower(entry.content), Split(query_lower)[k]) THEN 2 ELSE 0)
  + (IF \A k \in DOMAIN Split(query_lower) :
          Contains(Lower(entry.category), Split(query_lower)[k]) THEN 1 ELSE 0)

\* the relevance score of one entry
EntryScore(entry, query_lower, heuristic_id) ==
    (IF Truthy(heuristic_id) /\ entry.heuristic_id = heuristic_id THEN 3 ELSE 0)
  + (IF AnyWordIn(Split(query_lower), Lower(entry.content)) THEN 2 ELSE 0)
  + (IF AnyWordIn(Split(query_lower), Lower(entry.category)) THEN 1 ELSE 0)

\* if heuristic_id: relevant_entries = [e for e in ... if e.get("heuristic_id") == heuristic_id]
FilterEntries(entries, heuristic_id) ==
  IF Truthy(heuristic_id)
  THEN SelectSeq(entries, LAMBDA e : e.heuristic_id = heuristic_id)
  ELSE entries

KeepScoredAlways(score) == score >= 0

\* if score > 0: scored_entries.append((entry, score))
KeepScored(score) == score > 0

RECURSIVE ScoredEntries(_, _, _, _)
ScoredEntries(relevant_entries, query_lower, heuristic_id, n) ==
  IF n = 0 THEN <<>>
  ELSE LET rest == ScoredEntries(relevant_entries, query_lower, heuristic_id, n - 1)
           score == EntryScore(relevant_entries[n], query_lower, heuristic_id)
       IN IF KeepScored(score)
          THEN Append(rest, [entry |-> relevant_entries[n], score |-> score])
          ELSE rest

RECURSIVE InsertDescUnstable(_, _)
InsertDescUnstable(sorted, x) ==
  IF Len(sorted) = 0 THEN <<x>>
  ELSE IF Head(sorted).score > x.score
       THEN <<Head(sorted)>> \o InsertDescUnstable(Tail(sorted), x)
       ELSE <<x>> \o sorted

\* list.sort(key=score, reverse=True): stable, descending
RECURSIVE InsertDesc(_, _)
InsertDesc(sorted, x) ==
  IF Len(sorted) = 0 THEN <<x>>
  ELSE IF Head(sorted).score >= x.score
       THEN <<Head(sorted)>> \o InsertDesc(Tail(sorted), x)
       ELSE <<x>> \o sorted

RECURSIVE SortDesc(_, _)
SortDesc(scored, n) ==
  IF n = 0 THEN <<>> ELSE InsertDesc(SortDesc(scored, n - 1), scored[n])

\* seq[:k]
SliceTo(seq, k) ==
  IF k >= 0 THEN SubSeq(seq, 1, Min(k, Len(seq)))
  ELSE SubSeq(seq, 1, Max(0, Len(seq) + k))

\* the list retrieve_relevant_context returns over the given entries
RetrieveFrom(entries, query, heuristic_id, top_k) ==
  LET relevant_entries == FilterEntries(entries, heuristic_id)
      scored_entries == ScoredEntries(relevant_entries, Lower(query), heuristic_id,
                                      Len(relevant_entries))
      sorted == SliceTo(SortDesc(scored_entries, Len(scored_entries)), top_k)
  IN [i \in DOMAIN sorted |-> sorted[i].entry]

EntryIdUnpadded(n) == "kb_" \o ToString(n)

\* f"kb_{n:03d}"
EntryId(n) ==
  "kb_" \o (IF n < 10 THEN "00" ELSE IF n < 100 THEN "0" ELSE "") \o ToString(n)

\* the entry add_expert_feedback builds when the set holds n entries
FeedbackEntry(n, ui_pattern, violation_type, expert_rationale, heuristic_id) ==
  [id |-> EntryId(n + 1),
   category |-> "Expert Feedback - " \o violation_type,
   content |-> expert_rationale,
   ui_pattern |-> ui_pattern,
   violation_type |-> violation_type,
   heuristic_id |-> heuristic_id,
   source |-> "expert_validation",
   timestamp |-> "2024-01-01T00:00:00Z"]

(***************************************************************************)
(* HeuristicEvaluationEngine._evaluate_with_llm: the classifier boundary   *)
(***************************************************************************)
\* A JSON value is a record tagged with its type: [type |-> "string", value],
\* [type |-> "number", value], [type |-> "array", items] (a sequence of JSON
\* values) or [type |-> "object", members] (a function from keys to JSON
\* values).  Text that json.loads rejects is [type |-> "invalid"].
JString(s) == [type |-> "string", value |-> s]
JNumber(n) == [type |-> "number", value |-> n]
JArray(items) == [type |-> "array", items |-> items]
JObject(members) == [type |-> "object", members |-> members]
JInvalid == [type |-> "invalid"]

\* the Python value of a JSON value that is used as a field of a violation
PyValue(j) == IF j.type = "string" THEN j.value ELSE j

KnownKeysOnlyViolations == <<"violations">>

\* for key in ['violations', 'results', 'findings', 'issues']
KnownKeys == <<"violations", "results", "findings", "issues">>

\* violations_data after "Handle different response formats"
ViolationsData(parsed) ==
  IF parsed.type = "object"
  THEN LET present == {i \in DOMAIN KnownKeys : KnownKeys[i] \in DOMAIN parsed.members}
       IN IF present = {} THEN parsed
          ELSE parsed.members[KnownKeys[CHOOSE i \in present : \A j \in present : i <= j]]
  ELSE parsed

SeverityMapExact(s) == IF s \in SeverityValues THEN s ELSE "minor"

\* severity_map.get(s.lower(), SeverityLevel.MINOR)
SeverityMap(s) == IF Lower(s) \in SeverityValues THEN Lower(s) ELSE "minor"

ParseViolationFirstCriterion(heuristic_id, v_data) ==
  IF v_data.type # "object" THEN <<>>
  ELSE LET data == v_data.members
           severity == Get(data, "severity", JString("minor"))
       IN IF severity.type # "string" THEN <<>>
          ELSE <<HeuristicViolation(
                   heuristic_id,
                   PyValue(Get(data, "criterion_id", JString(heuristic_id \o ".1"))),
                   SeverityMap(severity.value),
                   PyValue(Get(data, "description", JString("Unspecified violation"))))>>

\* the body of the inner try for one v_data: <<violation>>, or <<>> when an
\* exception is caught and the item is skipped (v_data is no dict, or its
\* severity is no string)
ParseViolation(heuristic_id, v_data) ==
  IF v_data.type # "object" THEN <<>>
  ELSE LET data == v_data.members
           severity == Get(data, "severity", JString("minor"))
       IN IF severity.type # "string" THEN <<>>
          ELSE <<HeuristicViolation(
                   heuristic_id,
                   PyValue(Get(data, "criterion_id", JString(heuristic_id \o ".0"))),
                   SeverityMap(severity.value),
                   PyValue(Get(data, "description", JString("Unspecified violation"))))>>

RECURSIVE ParseViolations(_, _, _)
ParseViolations(heuristic_id, items, n) ==
  IF n = 0 THEN <<>>
  ELSE ParseViolations(heuristic_id, items, n - 1) \o ParseViolation(heuristic_id, items[n])

LLMReturned(violations) == [status |-> "returned", violations |-> violations, error |-> None]

LLMFailureSwallowed(heuristic_id) == LLMReturned(<<>>)

\* except Exception as e: raise ValueError(f"AI Service Unavailable: {e}")
LLMFailure(heuristic_id) ==
  [status |-> "raised", violations |-> <<>>, error |-> "ValueError: AI Service Unavailable"]

EvaluateWithLLMStrict(heuristic_id, call) ==
  IF call.outcome = "raises" \/ call.json.type = "invalid" THEN LLMFailure(heuristic_id)
  ELSE IF ViolationsData(call.json).type # "array" THEN LLMFailure(heuristic_id)
  ELSE LLMReturned(ParseViolations(heuristic_id, ViolationsData(call.json).items,
                                   Len(ViolationsData(call.json).items)))

EvaluateWithLLMLenient(heuristic_id, call) ==
  IF call.outcome = "raises" \/ call.json.type = "invalid" THEN LLMReturned(<<>>)
  ELSE IF ViolationsData(call.json).type # "array" THEN LLMReturned(<<>>)
  ELSE LLMReturned(ParseViolations(heuristic_id, ViolationsData(call.json).items,
                                   Len(ViolationsData(call.json).items)))

EvaluateWithLLMInvalidAsEmpty(heuristic_id, call) ==
  IF call.outcome = "raises" THEN LLMFailure(heuristic_id)
  ELSE IF call.json.type = "invalid" THEN LLMReturned(<<>>)
  ELSE IF ViolationsData(call.json).type # "array" THEN LLMReturned(<<>>)
  ELSE LLMReturned(ParseViolations(heuristic_id, ViolationsData(call.json).items,
                                   Len(ViolationsData(call.json).items)))

\* _evaluate_with_llm from the classifier call on: `call` is what
\* chat.completions.create did, [outcome |-> "raises"] or
\* [outcome |-> "content", json |-> the reply text as a JSON value]
EvaluateWithLLM(heuristic_id, call) ==
  IF call.outcome = "raises" \/ call.json.type = "invalid" THEN LLMFailure(heuristic_id)
  ELSE LET violations_data == ViolationsData(call.json)
       IN IF violations_data.type # "array" THEN LLMReturned(<<>>)
          ELSE LLMReturned(ParseViolations(heuristic_id, violations_data.items,
                                           Len(violations_data.items)))

\* the way _evaluate_with_llm left the try block, as its log tells it: the
\* call raised or the text was no JSON ("LLM evaluation failed", told apart
\* by the exception), "LLM response not a list", or the list was converted
ClassifyOutcome(call) ==
  IF call.outcome = "raises" THEN "raises"
  ELSE IF call.json.type = "invalid" THEN "invalid_json"
  ELSE IF ViolationsData(call.json).type # "array" THEN "not_a_list"
  ELSE "list"

LLMExplainEcho(heuristic_id, outcome) == "Summary for " \o heuristic_id

\* _llm_explain_heuristic: the stripped reply, or None when the call raises
\* or the response has no choices
LLMExplain(heuristic_id, outcome) ==
  IF outcome = "text" THEN "Summary for " \o heuristic_id ELSE None

(***************************************************************************)
(* HeuristicEvaluationEngine.evaluate_heuristic / evaluate_interface       *)
(***************************************************************************)
HeuristicScore(heuristic_id, score, violations, explanation, llm_explanation) ==
  [heuristic_id |-> heuristic_id, score |-> score, max_score |-> 100,
   violations |-> violations, explanation |-> explanation,
   llm_explanation |-> llm_explanation]

heuristic_ids_first_five == SubSeq(HeuristicId, 1, 5)

heuristic_ids_swapped == <<HeuristicId[2], HeuristicId[1]>> \o SubSeq(HeuristicId, 3, 10)

\* the heuristic_ids list of evaluate_interface
heuristic_ids == HeuristicId

RECURSIVE SumScores(_, _)
SumScores(scores, n) == IF n = 0 THEN 0 ELSE SumScores(scores, n - 1) + scores[n].score

MeanTruncated(total, count) == 100 * (total \div count)

\* round(total / count, 2), in hundredths: the nearest hundredth, ties to even
MeanRounded(total, count) ==
  LET q == (100 * total) \div count
      r == (100 * total) % count
  IN IF 2 * r > count \/ (2 * r = count /\ q % 2 = 1) THEN q + 1 ELSE q

CountCriticalOrMajor(violations) ==
  Cardinality({i \in DOMAIN violations : violations[i].severity \in {"critical", "major"}})

\* sum(1 for v in score.violations if v.severity == SeverityLevel.CRITICAL)
CountCritical(violations) ==
  Cardinality({i \in DOMAIN violations : violations[i].severity = "critical"})

\* the four-element detection result of the orchestrator's test property
DetectionElements == <<"text", "input", "button", "text">>

HeuristicEvaluationResult(scores, total, critical) ==
  [overall_score |-> MeanRounded(SumScores(scores, Len(scores)), Len(scores)),
   heuristic_scores |-> scores,
   total_violations |-> total,
   critical_issues |-> critical,
   evaluation_metadata |-> [total_elements |-> Len(DetectionElements),
                            evaluation_version |-> "2.0.0-llm",
                            evaluation_method |-> "llm-based"]]

(***************************************************************************)
(* Scorer specification: calculate_score applied to bounded inputs         *)
(***************************************************************************)
\* appended violations per input list
MaxAppend == 2
\* length of the long input list (enough critical violations to pass 100
\* points of deduction for the criteria with the largest weights)
HeavyLen == 24

\* heuristic ids that are no HeuristicId value
UnknownIds == {"H11", "h1"}
ScorerIds == HeuristicIdValues \cup UnknownIds

CriterionIds(h) ==
  IF h \in DOMAIN NIELSEN_HEURISTICS
  THEN {NIELSEN_HEURISTICS[h].measurable_criteria[i].id :
          i \in DOMAIN NIELSEN_HEURISTICS[h].measurable_criteria}
  ELSE {}

\* criterion ids that are not among h's criteria: the "<h>.0" default of
\* _evaluate_with_llm and a criterion of another heuristic
ForeignIds(h) == {h \o ".0", IF h = "H1" THEN "H2.1" ELSE "H1.1"}

ViolationPool(h) ==
  {HeuristicViolation(h, c, s, "Issue " \o c) :
     c \in CriterionIds(h) \cup ForeignIds(h), s \in SeverityValues}

RECURSIVE Repeat(_, _)
Repeat(v, n) == IF n = 0 THEN <<>> ELSE Append(Repeat(v, n - 1), v)

InitialLists(h) ==
  IF h \in DOMAIN NIELSEN_HEURISTICS
  THEN {<<>>, Repeat(HeuristicViolation(h, NIELSEN_HEURISTICS[h].measurable_criteria[1].id,
                                        "critical", "Blocking issue"), HeavyLen)}
  ELSE {<<>>}

NotCalled == [status |-> "not_called", score |-> -1, explanation |-> None, error |-> None]

ScorerInit ==
  /\ sc_hid \in ScorerIds
  /\ sc_violations \in InitialLists(sc_hid)
  /\ sc_result = NotCalled
  /\ sc_appended = 0

\* calculate_score(V, H)
CalculateScore ==
  /\ sc_result = NotCalled
  /\ sc_result' = calculate_score(sc_violations, sc_hid)
  /\ UNCHANGED <<sc_hid, sc_violations, sc_appended>>

\* calculate_score(V + [v], H), after calculate_score(V, H)
CalculateScoreAppended(v) ==
  /\ sc_result # NotCalled
  /\ sc_appended < MaxAppend
  /\ sc_violations' = Append(sc_violations, v)
  /\ sc_result' = calculate_score(sc_violations', sc_hid)
  /\ sc_appended' = sc_appended + 1
  /\ UNCHANGED sc_hid

scorer_vars == <<sc_hid, sc_violations, sc_result, sc_appended>>

\* no calculate_score call is being observed
ScorerIdle ==
  /\ sc_hid = None
  /\ sc_violations = <<>>
  /\ sc_result = NotCalled
  /\ sc_appended = 0

(***************************************************************************)
(* Knowledge-base state machine: one RAGKnowledgeBase object               *)
(***************************************************************************)
\* add_expert_feedback calls per behaviour
MaxFeedback == 1
\* top_k ranges over -NegTopK .. MaxTopK
MaxTopK == 4
NegTopK == 2

Queries ==
  {"", "confirmation", "Error Prevention violations examples", "user", "xyzzy",
   "Feedback  the\tUSER"}
Filters == {None, "", "H1", "H3", "H11"}
TopKs == (0 - NegTopK)..MaxTopK

FeedbackInputs ==
  {[ui_pattern |-> "Delete button", violation_type |-> "Missing confirmation",
    expert_rationale |-> "Destructive delete needs a confirmation step",
    heuristic_id |-> "H3"],
   [ui_pattern |-> "Spinner", violation_type |-> "No loading state",
    expert_rationale |-> "Show progress while the user waits",
    heuristic_id |-> "H1"]}

KbNoCall ==
  [status |-> "none", query |-> "", heuristic_id |-> None, top_k |-> 0, result |-> <<>>]

\* RAGKnowledgeBase.__init__
KBInit ==
  /\ knowledge_entries = <<>>
  /\ index_initialized = FALSE
  /\ kb_call = KbNoCall
  /\ kb_added = 0

\* initialize(): _load_knowledge_base replaces knowledge_entries by the seeds
KBInitialize ==
  /\ kb_call = KbNoCall
  /\ knowledge_entries' = SeedEntries
  /\ index_initialized' = TRUE
  /\ UNCHANGED <<kb_call, kb_added>>

\* the entries after the "if not self.index_initialized: await self.initialize()"
\* of retrieve_relevant_context
EntriesForRetrieval == IF index_initialized THEN knowledge_entries ELSE SeedEntries

\* retrieve_relevant_context(query, heuristic_id, top_k)
Retrieve(query, heuristic_id, top_k) ==
  /\ kb_call = KbNoCall
  /\ knowledge_entries' = EntriesForRetrieval
  /\ index_initialized' = TRUE
  /\ kb_call' = [status |-> "returned", query |-> query, heuristic_id |-> heuristic_id,
                 top_k |-> top_k,
                 result |-> RetrieveFrom(EntriesForRetrieval, query, heuristic_id, top_k)]
  /\ UNCHANGED kb_added

\* the caller drops the list it was given
ReleaseResult ==
  /\ kb_call # KbNoCall
  /\ kb_call' = KbNoCall
  /\ UNCHANGED <<knowledge_entries, index_initialized, kb_added>>

\* add_expert_feedback(ui_pattern, violation_type, expert_rationale, heuristic_id)
AddExpertFeedback(fb) ==
  /\ kb_call = KbNoCall
  /\ kb_added < MaxFeedback
  /\ knowledge_entries' =
       Append(knowledge_entries,
              FeedbackEntry(Len(knowledge_entries), fb.ui_pattern, fb.violation_type,
                            fb.expert_rationale, fb.heuristic_id))
  /\ kb_added' = kb_added + 1
  /\ UNCHANGED <<index_initialized, kb_call>>

kb_vars == <<knowledge_entries, index_initialized, kb_call, kb_added>>

(***************************************************************************)
(* Orchestrator state machine: one HeuristicEvaluationEngine and one       *)
(* evaluate_interface call                                                 *)
(***************************************************************************)
\* external calls per evaluation that answer other than the plain way
\* (retrieval succeeds, the classifier reports no violation, the narrative
\* call returns text)
MaxNoisy == 2

Criterion(h, k) == NIELSEN_HEURISTICS[h].measurable_criteria[k].id

\* items a classifier reply can hold for heuristic h
ItemCritical(h) ==
  JObject([criterion_id |-> JString(Criterion(h, 1)), severity |-> JString("critical"),
           description |-> JString("Submit button lacks visible feedback state")])
ItemMajorUpper(h) ==
  JObject([criterion_id |-> JString(Criterion(h, 2)), severity |-> JString("Major"),
           description |-> JString("Label uses internal jargon")])
ItemNoCriterion(h) ==
  JObject([severity |-> JString("CRITICAL"), description |-> JString("Flow cannot be left")])
ItemOddSeverity(h) ==
  JObject([criterion_id |-> JString(Criterion(h, 1)), severity |-> JString("blocker"),
           description |-> JString("Spacing is uneven")])
ItemNoSeverity(h) ==
  JObject([criterion_id |-> JString(Criterion(h, 2))])
ItemNumericSeverity(h) ==
  JObject([criterion_id |-> JString(Criterion(h, 1)), severity |-> JNumber(3)])
ItemCosmetic(h) ==
  JObject([criterion_id |-> JString(Criterion(h, 2)), severity |-> JString("cosmetic"),
           description |-> JString("Icon is slightly off centre")])

\* what chat.completions.create can do for heuristic h
PlainReply == [outcome |-> "content", json |-> JObject([violations |-> JArray(<<>>)])]
NoisyReplies(h) ==
  {[outcome |-> "raises"],
   [outcome |-> "content", json |-> JInvalid],
   [outcome |-> "content", json |-> JString("no violations found")],
   [outcome |-> "content", json |-> JObject([data |-> JArray(<<ItemCritical(h)>>)])],
   [outcome |-> "content", json |-> JObject([findings |-> JString("none")])],
   [outcome |-> "content", json |-> JArray(<<ItemCritical(h), ItemMajorUpper(h)>>)],
   [outcome |-> "content", json |-> JObject([violations |-> JArray(<<ItemCosmetic(h)>>)])],
   [outcome |-> "content",
    json |-> JObject([issues |-> JArray(<<ItemNoCriterion(h)>>),
                      summary |-> JString("one issue")])],
   [outcome |-> "content",
    json |-> JObject([results |-> JArray(<<JString("see below"), ItemNoSeverity(h),
                                            ItemNumericSeverity(h)>>),
                      issues |-> JArray(<<ItemCritical(h)>>)])]}
Replies(h) == {PlainReply} \cup NoisyReplies(h)

RetrievalOutcomes == {"ok", "raises"}
ExplainOutcomes == {"text", "raises", "no_choices"}

NoiseOf(retrieval, call, explain) ==
    (IF retrieval = "ok" THEN 0 ELSE 1)
  + (IF call = PlainReply THEN 0 ELSE 1)
  + (IF explain = "text" THEN 0 ELSE 1)

\* the outcomes left to choose from when `budget` more calls may be noisy
RetrievalChoices(budget) == IF budget >= 1 THEN RetrievalOutcomes ELSE {"ok"}
ReplyChoices(h, budget) == IF budget >= 1 THEN Replies(h) ELSE {PlainReply}
ExplainChoices(budget) == IF budget >= 1 THEN ExplainOutcomes ELSE {"text"}

\* HeuristicEvaluationEngine.__init__
EngineInit ==
  /\ engine_initialized = FALSE
  /\ pc = "idle"
  /\ h_index = 1
  /\ heuristic_scores = <<>>
  /\ total_violations = 0
  /\ critical_issues = 0
  /\ report = <<>>
  /\ ev_error = None
  /\ calls = <<>>
  /\ noisy = 0

\* initialize(): the client and a freshly initialized RAGKnowledgeBase
EngineInitialize ==
  /\ pc = "idle"
  /\ ~engine_initialized
  /\ engine_initialized' = TRUE
  /\ knowledge_entries' = SeedEntries
  /\ index_initialized' = TRUE
  /\ UNCHANGED <<pc, h_index, heuristic_scores, total_violations, critical_issues,
                 report, ev_error, calls, noisy, kb_call, kb_added>>

\* evaluate_interface up to the loop: initialize() if needed, empty totals
StartEvaluation ==
  /\ pc = "idle"
  /\ engine_initialized' = TRUE
  /\ knowledge_entries' = IF engine_initialized THEN knowledge_entries ELSE SeedEntries
  /\ index_initialized' = TRUE
  /\ pc' = "loop"
  /\ h_index' = 1
  /\ heuristic_scores' = <<>>
  /\ total_violations' = 0
  /\ critical_issues' = 0
  /\ UNCHANGED <<report, ev_error, calls, noisy, kb_call, kb_added>>

\* rag_kb.retrieve_relevant_context(query=f"{name} violations examples",
\* heuristic_id=heuristic_id.value, top_k=3)
EngineRetrieve(entries, h) ==
  RetrieveFrom(entries, NIELSEN_HEURISTICS[h].name \o " violations examples", h, 3)

\* the same call over the seed entries, computed once per heuristic
SeedRetrieval == [h \in HeuristicIdValues |-> EngineRetrieve(SeedEntries, h)]

RagExamplesIgnoringFailure(h, retrieval) ==
  IF knowledge_entries = SeedEntries THEN SeedRetrieval[h]
  ELSE EngineRetrieve(knowledge_entries, h)

\* the context examples _evaluate_with_llm puts into the prompt
RagExamples(h, retrieval) ==
  IF retrieval = "raises" THEN <<>>
  ELSE IF knowledge_entries = SeedEntries THEN SeedRetrieval[h]
  ELSE EngineRetrieve(knowledge_entries, h)

\* calculate_score([], h), computed once per heuristic
NoViolationScore == [h \in HeuristicIdValues |-> calculate_score(<<>>, h)]

\* self.calculate_score(violations, heuristic_id.value) of evaluate_heuristic
ScoreOf(violations, h) ==
  IF violations = <<>> THEN NoViolationScore[h] ELSE calculate_score(violations, h)

\* one iteration of the loop: evaluate_heuristic(heuristic_id, ...) and the
\* running totals
EvaluateNext(retrieval, call, explain) ==
  /\ pc = "loop"
  /\ h_index <= Len(heuristic_ids)
  /\ noisy + NoiseOf(retrieval, call, explain) <= MaxNoisy
  /\ LET h == heuristic_ids[h_index]
         llm == EvaluateWithLLM(h, call)
         seen == calls \o <<[op |-> "retrieve", heuristic_id |-> h, outcome |-> retrieval],
                            [op |-> "classify", heuristic_id |-> h,
                             outcome |-> ClassifyOutcome(call),
                             examples |-> Len(RagExamples(h, retrieval))]>>
     IN IF llm.status = "raised"
        THEN /\ explain = "text"
             /\ pc' = "failed"
             /\ ev_error' = llm.error
             /\ calls' = seen
             /\ UNCHANGED <<h_index, heuristic_scores, total_violations, critical_issues>>
        ELSE LET scored == ScoreOf(llm.violations, h)
                 hs == HeuristicScore(h, scored.score, llm.violations, scored.explanation,
                                      LLMExplain(h, explain))
             IN /\ heuristic_scores' = Append(heuristic_scores, hs)
                /\ total_violations' = total_violations + Len(hs.violations)
                /\ critical_issues' = critical_issues + CountCritical(hs.violations)
                /\ h_index' = h_index + 1
                /\ calls' = Append(seen, [op |-> "explain", heuristic_id |-> h,
                                          outcome |-> explain])
                /\ UNCHANGED <<pc, ev_error>>
  /\ noisy' = noisy + NoiseOf(retrieval, call, explain)
  /\ UNCHANGED <<engine_initialized, report, kb_vars>>

\* after the loop: the mean and the report
FinishEvaluation ==
  /\ pc = "loop"
  /\ h_index > Len(heuristic_ids)
  /\ report' = <<HeuristicEvaluationResult(heuristic_scores, total_violations, critical_issues)>>
  /\ pc' = "done"
  /\ UNCHANGED <<engine_initialized, h_index, heuristic_scores, total_violations,
                 critical_issues, ev_error, calls, noisy, kb_vars>>

engine_vars == <<engine_initialized, pc, h_index, heuristic_scores, total_violations,
                 critical_issues, report, ev_error, calls, noisy>>

(***************************************************************************)
(* app/api/routes/evaluation.py: the /evaluate and /evaluate-legacy        *)
(* handlers, each working on a HeuristicEvaluationEngine of its own        *)
(***************************************************************************)
\* ALLOWED_IMAGE_TYPES of app/core/config.py
ALLOWED_IMAGE_TYPES == {"image/jpeg", "image/png", "image/webp"}

\* s.upper(), character by character
UpperChar(c) ==
  IF \E u \in DOMAIN LowerMap : LowerMap[u] = c
  THEN CHOOSE u \in DOMAIN LowerMap : LowerMap[u] = c
  ELSE c
RECURSIVE UpperRange(_, _, _)
UpperRange(s, lo, hi) ==
  IF lo > hi THEN ""
  ELSE IF lo = hi THEN UpperChar(CharAt(s, lo))
  ELSE UpperRange(s, lo, (lo + hi) \div 2) \o UpperRange(s, (lo + hi) \div 2 + 1, hi)
Upper(s) == UpperRange(s, 1, Len(s))

\* what a handler answers: the returned body, the HTTPException it raises,
\* or an exception that leaves the handler
NoResponse ==
  [kind |-> "none", status_code |-> 0, error |-> None, message |-> None,
   received |-> None, exception |-> None, data |-> <<>>]
Success(data) ==
  [kind |-> "success", status_code |-> 200, error |-> None, message |-> None,
   received |-> None, exception |-> None, data |-> <<data>>]
HTTPException(status_code, error, message, received) ==
  [kind |-> "http_exception", status_code |-> status_code, error |-> error,
   message |-> message, received |-> received, exception |-> None, data |-> <<>>]
Unhandled(exception) ==
  [kind |-> "unhandled", status_code |-> 0, error |-> None, message |-> None,
   received |-> None, exception |-> exception, data |-> <<>>]

\* an exception raised inside a handler's try block
InvalidInputError(message, received) ==
  [type |-> "InvalidInputError", message |-> message, received |-> received]
OtherError(type, message) == [type |-> type, message |-> message, received |-> None]

InvalidInputAsInternal(e) ==
  HTTPException(500, "Internal Server Error",
                "An unexpected error occurred while processing your request", None)

\* except InvalidInputError as e: raise HTTPException(status_code=400, ...)
InvalidInputResponse(e) == HTTPException(400, "Invalid Input", e.message, e.received)

\* the except clauses of evaluate_legacy_format, tried in order for the
\* exception e: the second clause names ModelInferenceError, which the module
\* never imports, so reaching it raises NameError out of the handler
LegacyExcept(e) ==
  IF e.type = "InvalidInputError" THEN InvalidInputResponse(e)
  ELSE Unhandled("NameError")

\* except Exception as e: raise HTTPException(status_code=500,
\* detail={"error": str(e)}) of evaluate_heuristics
EvaluateExcept(e) == HTTPException(500, e.message, None, None)

\* ", ".join(sorted(ALLOWED_IMAGE_TYPES))
AllowedTypesText == "image/jpeg, image/png, image/webp"

\* evaluate_heuristic(h_id, ui_elements, None) as the legacy handler calls
\* it.  elements: "valid", or "short_bbox" (a bbox with fewer than four
\* numbers, which _serialize_elements_for_llm indexes before the try block).
\* detection_result is None, so _llm_explain_heuristic fails on
\* detection_result.elements inside its try block and returns None without
\* calling the model.
LegacyEvaluateHeuristic(h, elements, retrieval, call) ==
  IF elements = "short_bbox"
  THEN [status |-> "raised", error |-> OtherError("IndexError", "list index out of range"),
        score |-> <<>>, calls |-> <<>>]
  ELSE LET llm == EvaluateWithLLM(h, call)
           made == <<[op |-> "retrieve", outcome |-> retrieval],
                     [op |-> "classify", outcome |-> ClassifyOutcome(call)]>>
       IN IF llm.status = "raised"
          THEN [status |-> "raised",
                error |-> OtherError("ValueError", "AI Service Unavailable"),
                score |-> <<>>, calls |-> made]
          ELSE LET scored == ScoreOf(llm.violations, h)
               IN [status |-> "returned", error |-> OtherError("", ""),
                   score |-> <<HeuristicScore(h, scored.score, llm.violations,
                                              scored.explanation, LLMExplain(h, "raises"))>>,
                   calls |-> made]

\* evaluate_legacy_format(heuristic_id, elements).  elements: "valid",
\* "short_bbox", or "malformed" (UIElement.from_dict raises for an entry)
LegacyOutcome(heuristic_id, elements, retrieval, call) ==
  LET normalized_id == Upper(heuristic_id) IN
  IF normalized_id \notin HeuristicIdValues
  THEN [response |-> LegacyExcept(InvalidInputError("Invalid heuristic ID: " \o heuristic_id,
                                                    heuristic_id)),
        calls |-> <<>>]
  ELSE IF elements = "malformed"
  THEN [response |-> LegacyExcept(InvalidInputError("Invalid element format", None)),
        calls |-> <<>>]
  ELSE LET outcome == LegacyEvaluateHeuristic(normalized_id, elements, retrieval, call)
       IN [response |-> IF outcome.status = "raised" THEN LegacyExcept(outcome.error)
                        ELSE Success(outcome.score[1]),
           calls |-> outcome.calls]

\* what the classifier does during one /evaluate request, per heuristic
StubKinds == {"no_violations", "violations", "not_a_list", "fails_at_H4"}
StubReply(stub, h) ==
  CASE stub = "no_violations" -> PlainReply
    [] stub = "violations" ->
         [outcome |-> "content", json |-> JArray(<<ItemCritical(h), ItemMajorUpper(h)>>)]
    [] stub = "not_a_list" -> [outcome |-> "content", json |-> JString("no violations found")]
    [] stub = "fails_at_H4" -> IF h = "H4" THEN [outcome |-> "raises"] ELSE PlainReply

\* evaluate_interface on a fresh engine: the loop from heuristic i on
RECURSIVE InterfaceLoop(_, _, _)
InterfaceLoop(stub, i, acc) ==
  IF i > Len(heuristic_ids)
  THEN [status |-> "returned", error |-> OtherError("", ""), calls |-> acc.calls,
        report |-> <<HeuristicEvaluationResult(acc.scores, acc.total, acc.critical)>>]
  ELSE LET h == heuristic_ids[i]
           llm == EvaluateWithLLM(h, StubReply(stub, h))
           made == acc.calls \o <<[op |-> "retrieve", outcome |-> "ok"],
                                  [op |-> "classify",
                                   outcome |-> ClassifyOutcome(StubReply(stub, h))]>>
       IN IF llm.status = "raised"
          THEN [status |-> "raised", calls |-> made, report |-> <<>>,
                error |-> OtherError("ValueError", "AI Service Unavailable")]
          ELSE LET scored == ScoreOf(llm.violations, h)
                   hs == HeuristicScore(h, scored.score, llm.violations, scored.explanation,
                                        LLMExplain(h, "text"))
               IN InterfaceLoop(stub, i + 1,
                    [scores |-> Append(acc.scores, hs),
                     total |-> acc.total + Len(hs.violations),
                     critical |-> acc.critical + CountCritical(hs.violations),
                     calls |-> Append(made, [op |-> "explain", outcome |-> "text"])])

\* evaluate_heuristics(request, image): content_type is image.content_type
\* (None when the upload names none), detection is what detect_elements does
EvaluateOutcome(content_type, detection, stub) ==
  LET effective == IF content_type = None THEN "application/octet-stream" ELSE content_type
  IN IF effective \notin ALLOWED_IMAGE_TYPES
     THEN [response |-> EvaluateExcept(InvalidInputError(
                           "Unsupported image type: " \o effective \o ". Allowed types: "
                             \o AllowedTypesText, effective)),
           calls |-> <<>>]
     ELSE IF detection = "raises"
     THEN [response |-> EvaluateExcept(OtherError("OmniParserError", "Detection failed")),
           calls |-> <<[op |-> "detect", outcome |-> "raises"]>>]
     ELSE LET run == InterfaceLoop(stub, 1, [scores |-> <<>>, total |-> 0, critical |-> 0,
                                              calls |-> <<[op |-> "detect", outcome |-> "ok"]>>])
          IN [response |-> IF run.status = "raised" THEN EvaluateExcept(run.error)
                           ELSE Success(run.report[1]),
              calls |-> run.calls]

\* the requests served
LegacyIds == {"H1", "h1", "H10", "h10", "H7", "H11", "h11", "H0", "", "H1 ", "visibility"}
LegacyElements == {"valid", "malformed", "short_bbox"}
ContentTypes ==
  {None, "image/jpeg", "image/png", "image/webp", "image/gif", "application/pdf",
   "IMAGE/PNG", "text/plain"}
DetectionOutcomes == {"ok", "raises"}

NoRequest ==
  [route |-> "none", heuristic_id |-> None, elements |-> None, content_type |-> None]

RoutesIdle ==
  /\ rt_request = NoRequest
  /\ rt_response = NoResponse
  /\ rt_calls = <<>>

\* POST /evaluate-legacy/{heuristic_id}
LegacyRequest(heuristic_id, elements, retrieval, call) ==
  /\ rt_request = NoRequest
  /\ rt_request' = [route |-> "evaluate-legacy", heuristic_id |-> heuristic_id,
                    elements |-> elements, content_type |-> None]
  /\ rt_response' = LegacyOutcome(heuristic_id, elements, retrieval, call).response
  /\ rt_calls' = LegacyOutcome(heuristic_id, elements, retrieval, call).calls

\* POST /evaluate
EvaluateRequest(content_type, detection, stub) ==
  /\ rt_request = NoRequest
  /\ rt_request' = [route |-> "evaluate", heuristic_id |-> None, elements |-> None,
                    content_type |-> content_type]
  /\ rt_response' = EvaluateOutcome(content_type, detection, stub).response
  /\ rt_calls' = EvaluateOutcome(content_type, detection, stub).calls

\* the response is sent; the next request can be served
RequestDone ==
  /\ rt_request # NoRequest
  /\ rt_request' = NoRequest
  /\ rt_response' = NoResponse
  /\ rt_calls' = <<>>

routes_vars == <<rt_request, rt_response, rt_calls>>

(***************************************************************************)
(* _evaluate_with_llm taken alone: one classifier reply and its conversion *)
(***************************************************************************)
\* an item whose severity is spelled s
ItemSeverity(h, s) ==
  JObject([criterion_id |-> JString(Criterion(h, 1)), severity |-> JString(s),
           description |-> JString("Severity " \o s)])

\* spellings of the severity a reply can hold
SeveritySpellings ==
  <<"critical", "Critical", "MAJOR", "minor", "Cosmetic", "blocker", "", "high">>

\* further replies: arrays under the other known keys, an empty array, a
\* number, an object without a known key, one item per severity spelling
MoreReplies(h) ==
  {[outcome |-> "content",
    json |-> JObject([findings |-> JArray(<<ItemMajorUpper(h), ItemCosmetic(h)>>)])],
   [outcome |-> "content", json |-> JObject([results |-> JArray(<<ItemCritical(h)>>)])],
   [outcome |-> "content",
    json |-> JObject([issues |-> JArray(<<ItemCosmetic(h), ItemNoSeverity(h),
                                           ItemOddSeverity(h)>>),
                      count |-> JNumber(3)])],
   [outcome |-> "content", json |-> JArray(<<>>)],
   [outcome |-> "content", json |-> JNumber(0)],
   [outcome |-> "content", json |-> JObject([error |-> JString("rate limited")])],
   [outcome |-> "content",
    json |-> JArray([i \in DOMAIN SeveritySpellings |-> ItemSeverity(h, SeveritySpellings[i])])]}

ClassifierReplies(h) == Replies(h) \cup MoreReplies(h)

NoClassifierCall == [outcome |-> "none"]
NotClassified == [status |-> "not_called", violations |-> <<>>, error |-> None]

ClassifierInit ==
  /\ cl_hid \in HeuristicIdValues
  /\ cl_call = NoClassifierCall
  /\ cl_result = NotClassified

ClassifierIdle ==
  /\ cl_hid = "H1"
  /\ cl_call = NoClassifierCall
  /\ cl_result = NotClassified

\* _evaluate_with_llm(cl_hid, ...) with the reply `call`
Classify(call) ==
  /\ cl_call = NoClassifierCall
  /\ cl_call' = call
  /\ cl_result' = EvaluateWithLLM(cl_hid, call)
  /\ UNCHANGED cl_hid

classifier_vars == <<cl_hid, cl_call, cl_result>>

(***************************************************************************)
(* Specifications                                                          *)
(***************************************************************************)
vars == <<scorer_vars, kb_vars, engine_vars, routes_vars, classifier_vars>>

ScorerNext ==
  \/ CalculateScore /\ UNCHANGED <<kb_vars, engine_vars, routes_vars, classifier_vars>>
  \/ \E v \in ViolationPool(sc_hid) :
       CalculateScoreAppended(v) /\ UNCHANGED <<kb_vars, engine_vars, routes_vars, classifier_vars>>

InitScorer == ScorerInit /\ KBInit /\ EngineInit /\ RoutesIdle /\ ClassifierIdle

SpecScorer == InitScorer /\ [][ScorerNext]_vars

KBNext ==
  \/ KBInitialize /\ UNCHANGED <<scorer_vars, engine_vars, routes_vars, classifier_vars>>
  \/ \E q \in Queries, f \in Filters, k \in TopKs :
       Retrieve(q, f, k) /\ UNCHANGED <<scorer_vars, engine_vars, routes_vars, classifier_vars>>
  \/ ReleaseResult /\ UNCHANGED <<scorer_vars, engine_vars, routes_vars, classifier_vars>>
  \/ \E fb \in FeedbackInputs : AddExpertFeedback(fb) /\ UNCHANGED <<scorer_vars, engine_vars, routes_vars, classifier_vars>>

InitKB == ScorerIdle /\ KBInit /\ EngineInit /\ RoutesIdle /\ ClassifierIdle

EngineNext ==
  \/ EngineInitialize /\ UNCHANGED <<scorer_vars, routes_vars, classifier_vars>>
  \/ StartEvaluation /\ UNCHANGED <<scorer_vars, routes_vars, classifier_vars>>
  \/ \E r \in RetrievalChoices(MaxNoisy - noisy) :
       \E c \in ReplyChoices(heuristic_ids[Min(h_index, Len(heuristic_ids))],
                             MaxNoisy - noisy - NoiseOf(r, PlainReply, "text")) :
         \E e \in ExplainChoices(MaxNoisy - noisy - NoiseOf(r, c, "text")) :
           EvaluateNext(r, c, e) /\ UNCHANGED <<scorer_vars, routes_vars, classifier_vars>>
  \/ FinishEvaluation /\ UNCHANGED <<scorer_vars, routes_vars, classifier_vars>>

InitEngine == ScorerIdle /\ KBInit /\ EngineInit /\ RoutesIdle /\ ClassifierIdle

SpecEngine == InitEngine /\ [][EngineNext]_vars

SpecKB == InitKB /\ [][KBNext]_vars

\* the classifier replies a legacy request for heuristic_id can meet
LegacyReplies(heuristic_id) ==
  IF Upper(heuristic_id) \in HeuristicIdValues THEN Replies(Upper(heuristic_id))
  ELSE {PlainReply}

RoutesNext ==
  \/ \E id \in LegacyIds, els \in LegacyElements, r \in RetrievalOutcomes :
       \E c \in LegacyReplies(id) :
         LegacyRequest(id, els, r, c) /\ UNCHANGED <<scorer_vars, kb_vars, engine_vars, classifier_vars>>
  \/ \E ct \in ContentTypes, det \in DetectionOutcomes, stub \in StubKinds :
       EvaluateRequest(ct, det, stub) /\ UNCHANGED <<scorer_vars, kb_vars, engine_vars, classifier_vars>>
  \/ RequestDone /\ UNCHANGED <<scorer_vars, kb_vars, engine_vars, classifier_vars>>

InitRoutes == ScorerIdle /\ KBInit /\ EngineInit /\ RoutesIdle /\ ClassifierIdle

SpecRoutes == InitRoutes /\ [][RoutesNext]_vars

ClassifierNext ==
  \E call \in ClassifierReplies(cl_hid) :
    Classify(call) /\ UNCHANGED <<scorer_vars, kb_vars, engine_vars, routes_vars>>

InitClassifier == ScorerIdle /\ KBInit /\ EngineInit /\ RoutesIdle /\ ClassifierInit

SpecClassifier == InitClassifier /\ [][ClassifierNext]_vars

(***************************************************************************)
(* Properties of the scorer                                                *)
(***************************************************************************)
Last(seq) == seq[Len(seq)]

\* the step is a call calculate_score(V + [v], H) following calculate_score(V, H)
AppendedCall ==
  /\ sc_hid \in DOMAIN NIELSEN_HEURISTICS
  /\ sc_result.status = "returned"
  /\ sc_appended' = sc_appended + 1

\* C1: calculate_score(V, h) with a heuristic id h that is not in the
\* catalogue returns (100, "No criteria defined") and does not raise.
C1_UnknownIdIsNeutral ==
  (sc_hid \notin DOMAIN NIELSEN_HEURISTICS /\ sc_result # NotCalled)
    => sc_result = Returned(100, "No criteria defined")

\* C2: for a catalogue heuristic id the call returns an integer score in
\* 0..100, and exactly 100 when the violation list is empty.
C2_ScoreInRange ==
  (sc_hid \in DOMAIN NIELSEN_HEURISTICS /\ sc_result # NotCalled)
    => /\ sc_result.status = "returned"
       /\ sc_result.score \in 0..100
       /\ (sc_violations = <<>> => sc_result.score = 100)

\* a call whose deductions exceed 100 points and whose score is 0
C2_Witness ==
  /\ sc_hid \in DOMAIN NIELSEN_HEURISTICS
  /\ sc_result.status = "returned"
  /\ sc_result.score = 0
  /\ ScoreLoop(NIELSEN_HEURISTICS[sc_hid].measurable_criteria, sc_violations,
               Len(sc_violations)).total_deduction > 100

\* C3: appending a violation whose criterion id is one of H's criteria
\* never increases the score.
C3_Monotonic ==
  [][(AppendedCall /\ Last(sc_violations').criterion_id \in CriterionIds(sc_hid))
       => (sc_result'.status = "returned" /\ sc_result'.score <= sc_result.score)]_vars

\* a matched violation was appended to a non-empty list and the score is
\* below 100 without having reached 0
C3_Witness ==
  /\ sc_hid \in DOMAIN NIELSEN_HEURISTICS
  /\ sc_appended = 2
  /\ Last(sc_violations).criterion_id \in CriterionIds(sc_hid)
  /\ sc_result.status = "returned"
  /\ sc_result.score \in 1..98

\* C4: appending a violation whose criterion id is not among H's criteria
\* leaves the score unchanged and raises no error.
C4_UnmatchedIgnored ==
  [][(AppendedCall /\ Last(sc_violations').criterion_id \notin CriterionIds(sc_hid))
       => (sc_result'.status = "returned" /\ sc_result'.score = sc_result.score)]_vars

\* an unmatched violation was appended after a matched one
C4_Witness ==
  /\ sc_hid \in DOMAIN NIELSEN_HEURISTICS
  /\ sc_appended = 2
  /\ Last(sc_violations).criterion_id \notin CriterionIds(sc_hid)
  /\ sc_violations[Len(sc_violations) - 1].criterion_id \in CriterionIds(sc_hid)
  /\ sc_result.status = "returned"
  /\ sc_result.score \in 1..99

(***************************************************************************)
(* Properties of the retriever                                             *)
(***************************************************************************)
\* the entries the call of kb_call considered, with their relevance scores
ConsideredEntries == FilterEntries(knowledge_entries, kb_call.heuristic_id)
RelevanceOf(entry) == EntryScore(entry, Lower(kb_call.query), kb_call.heuristic_id)
NumberScoring ==
  Cardinality({i \in DOMAIN ConsideredEntries : RelevanceOf(ConsideredEntries[i]) > 0})

\* C5: retrieve_relevant_context never returns an entry whose relevance
\* score is 0, also when top_k exceeds the number of scoring entries.
C5_NoZeroScoreReturned ==
  kb_call.status = "returned"
    => \A i \in DOMAIN kb_call.result : RelevanceOf(kb_call.result[i]) > 0

\* an unfiltered call that returned fewer entries than top_k while entries
\* scoring 0 were there to fill the list
C5_Witness ==
  /\ kb_call.status = "returned"
  /\ ~Truthy(kb_call.heuristic_id)
  /\ Len(kb_call.result) >= 1
  /\ kb_call.top_k > Len(kb_call.result)
  /\ \E i \in DOMAIN knowledge_entries : RelevanceOf(knowledge_entries[i]) = 0

\* C6: the call returns exactly min(top_k, number of entries scoring above
\* 0) entries, and so never more than top_k.  (No list has a negative
\* length, so for top_k < 0 the claim is read as "returns no entry".)
C6_ExactlyMinTopK ==
  kb_call.status = "returned"
    => /\ Len(kb_call.result) = Max(0, Min(kb_call.top_k, NumberScoring))
       /\ Len(kb_call.result) <= Max(0, kb_call.top_k)

\* the part of C6 the code keeps: for top_k >= 0 the count is min(top_k, n)
C6_HoldsForNonNegativeTopK ==
  (kb_call.status = "returned" /\ kb_call.top_k >= 0)
    => Len(kb_call.result) = Min(kb_call.top_k, NumberScoring)

(***************************************************************************)
(* Properties of the orchestrator                                          *)
(***************************************************************************)
\* the report evaluate_interface returned
Returned_report == report[1]

Abs(x) == IF x >= 0 THEN x ELSE 0 - x

\* C7: every report has exactly 10 heuristic scores, one per heuristic id,
\* in the declared order H1, H2, ..., H10.
C7_TenScoresInOrder ==
  report # <<>>
    => /\ Len(Returned_report.heuristic_scores) = 10
       /\ \A i \in 1..10 : Returned_report.heuristic_scores[i].heuristic_id = HeuristicId[i]

\* a report of an evaluation in which two classifier replies held violations
C7_Witness ==
  /\ report # <<>>
  /\ Cardinality({i \in DOMAIN Returned_report.heuristic_scores :
                    Returned_report.heuristic_scores[i].violations # <<>>}) = 2

\* C8: overall_score is the arithmetic mean of the integer scores of
\* heuristic_scores rounded to 2 decimals: overall_score, in hundredths, is
\* an integer within half a hundredth of the mean.
C8_OverallIsRoundedMean ==
  report # <<>>
    => LET scores == Returned_report.heuristic_scores
           n == Len(scores)
       IN /\ n > 0
          /\ 2 * Abs(Returned_report.overall_score * n - 100 * SumScores(scores, n)) <= n

\* a report whose mean is no whole number and mixes two lowered scores
C8_Witness ==
  /\ report # <<>>
  /\ Returned_report.overall_score % 100 # 0
  /\ Cardinality({Returned_report.heuristic_scores[i].score :
                    i \in DOMAIN Returned_report.heuristic_scores}) >= 3

\* C9: critical_issues is the number of violations of severity critical
\* over all heuristic_scores, and total_violations the sum of the lengths
\* of their violation lists.
C9_CountsMatchViolations ==
  report # <<>>
    => LET scores == Returned_report.heuristic_scores
           all == UNION {{<<i, j>> : j \in DOMAIN scores[i].violations} : i \in DOMAIN scores}
       IN /\ Returned_report.total_violations = Cardinality(all)
          /\ Returned_report.critical_issues =
               Cardinality({p \in all : scores[p[1]].violations[p[2]].severity = "critical"})

\* a report with critical violations under two heuristics next to violations
\* that are not critical
C9_Witness ==
  /\ report # <<>>
  /\ Cardinality({i \in DOMAIN Returned_report.heuristic_scores :
                    CountCritical(Returned_report.heuristic_scores[i].violations) > 0}) = 2
  /\ Returned_report.total_violations > Returned_report.critical_issues

\* C10: a classifier call that raises ends in the "AI Service Unavailable"
\* error for that heuristic: no HeuristicScore is produced for it (so none
\* with score 100 and no violations), and no report is returned.
C10_FailedCallYieldsError ==
  \A k \in DOMAIN calls :
    (calls[k].op = "classify" /\ calls[k].outcome = "raises")
      => /\ pc = "failed"
         /\ ev_error = "ValueError: AI Service Unavailable"
         /\ report = <<>>
         /\ \A i \in DOMAIN heuristic_scores :
              heuristic_scores[i].heuristic_id # calls[k].heuristic_id

\* the classifier call of a later heuristic raised after earlier heuristics
\* were scored
C10_Witness ==
  /\ pc = "failed"
  /\ Len(heuristic_scores) >= 2
  /\ calls[Len(calls)].op = "classify"
  /\ calls[Len(calls)].outcome = "raises"

\* replies that parse as JSON with the wrong top-level shape: a string, a
\* number, an object with none of the known keys
WrongShapeReplies ==
  {[outcome |-> "content", json |-> JString("no violations found")],
   [outcome |-> "content", json |-> JNumber(0)],
   [outcome |-> "content", json |-> JObject([data |-> JArray(<<ItemCritical("H1")>>)])],
   [outcome |-> "content", json |-> JObject([summary |-> JString("all good")])]}

\* the step is one loop iteration whose classifier reply has a wrong shape
WrongShapeStep ==
  \E r \in RetrievalOutcomes, c \in WrongShapeReplies, e \in ExplainOutcomes :
    EvaluateNext(r, c, e)

\* C11: a classifier reply that parses as JSON but has the wrong top-level
\* shape gives that heuristic zero violations (and so the score 100) without
\* an error, and the evaluation goes on with the next heuristic.
C11_WrongShapeIsNoViolation ==
  [][WrongShapeStep
       => /\ pc' = "loop"
          /\ ev_error' = None
          /\ Len(heuristic_scores') = Len(heuristic_scores) + 1
          /\ Last(heuristic_scores').heuristic_id = heuristic_ids[h_index]
          /\ Last(heuristic_scores').violations = <<>>
          /\ Last(heuristic_scores').score = 100
          /\ h_index' = h_index + 1]_vars

\* a complete report was returned after the replies for two heuristics were
\* no list
C11_Witness ==
  /\ report # <<>>
  /\ Len(Returned_report.heuristic_scores) = Len(heuristic_ids)
  /\ Cardinality({k \in DOMAIN calls :
                    calls[k].op = "classify" /\ calls[k].outcome = "not_a_list"}) = 2

(***************************************************************************)
(* Properties of the knowledge set                                         *)
(***************************************************************************)
\* C12: the knowledge set is append-only: no step of initialize,
\* add_expert_feedback or retrieve_relevant_context removes an entry, so an
\* entry appended by add_expert_feedback stays in knowledge_entries.
C12_AppendOnly ==
  [][\A i \in DOMAIN knowledge_entries :
       \E j \in DOMAIN knowledge_entries' : knowledge_entries'[j] = knowledge_entries[i]]_vars

(***************************************************************************)
(* Properties of the route handlers                                        *)
(***************************************************************************)
\* the heuristic id of the legacy request is none of H1..H10, compared
\* without regard to case
UnknownLegacyId ==
  /\ rt_request.route = "evaluate-legacy"
  /\ Lower(rt_request.heuristic_id) \notin {Lower(HeuristicId[i]) : i \in DOMAIN HeuristicId}

ClassifierCalls == {k \in DOMAIN rt_calls : rt_calls[k].op = "classify"}

\* C13: an evaluate-legacy request naming a heuristic id that is none of
\* H1..H10 (case-insensitively) is answered with HTTP 400 "Invalid Input"
\* echoing the received id, and no classifier call is made.
C13_UnknownIdIsInvalidInput ==
  UnknownLegacyId
    => /\ rt_response.kind = "http_exception"
       /\ rt_response.status_code = 400
       /\ rt_response.error = "Invalid Input"
       /\ rt_response.received = rt_request.heuristic_id
       /\ ClassifierCalls = {}

\* the lower-case id of no heuristic was rejected, and echoed as received
C13_Witness ==
  /\ rt_request.route = "evaluate-legacy"
  /\ rt_request.heuristic_id = "h11"
  /\ rt_response.status_code = 400
  /\ rt_response.message = "Invalid heuristic ID: h11"

\* C14: in an evaluate-legacy request, a classifier call that fails is
\* answered with HTTP 503 "Service Unavailable".
C14_ClassifierFailureIs503 ==
  (rt_request.route = "evaluate-legacy"
     /\ \E k \in ClassifierCalls : rt_calls[k].outcome = "raises")
    => /\ rt_response.kind = "http_exception"
       /\ rt_response.status_code = 503
       /\ rt_response.error = "Service Unavailable"

\* C15: /evaluate answers an upload whose content type is none of
\* image/jpeg, image/png, image/webp with HTTP 400, before any detection or
\* classifier call.
C15_BadContentTypeIs400 ==
  (rt_request.route = "evaluate"
     /\ rt_request.content_type \notin {"image/jpeg", "image/png", "image/webp"})
    => /\ rt_response.kind = "http_exception"
       /\ rt_response.status_code = 400
       /\ rt_calls = <<>>

(***************************************************************************)
(* Further properties of the knowledge set, the orchestrator, the scorer   *)
(* and the retriever                                                       *)
(***************************************************************************)
\* C16: after initialize the knowledge base holds exactly the 12 seed
\* entries (kb_001 .. kb_012), and each heuristic id H1..H10 is the
\* heuristic id of at least one of them.
C16_SeedsAfterInitialize ==
  [][KBInitialize
       => /\ Len(knowledge_entries') = 12
          /\ \A n \in 1..12 : knowledge_entries'[n].id = EntryId(n)
          /\ \A i \in DOMAIN HeuristicId :
               \E n \in DOMAIN knowledge_entries' :
                 knowledge_entries'[n].heuristic_id = HeuristicId[i]]_vars

\* initialize ran on a fresh knowledge base and nothing else has happened
C16_Witness ==
  /\ index_initialized
  /\ kb_added = 0
  /\ kb_call = KbNoCall
  /\ Len(knowledge_entries) = 12

\* the HeuristicScore records produced for heuristic h
ScoresOf(h) == {i \in DOMAIN heuristic_scores : heuristic_scores[i].heuristic_id = h}

\* the narrative call logged at calls[k] raised
ExplainFailed(k) == calls[k].op = "explain" /\ calls[k].outcome = "raises"

\* C17: a failure of the narrative-explanation call never aborts the
\* evaluation: the heuristic's HeuristicScore is produced, with the score
\* and explanation of its violations and with llm_explanation None, and no
\* error is raised for that heuristic.
C17_ExplainFailureIsTolerated ==
  \A k \in DOMAIN calls :
    ExplainFailed(k)
      => /\ Cardinality(ScoresOf(calls[k].heuristic_id)) = 1
         /\ \A i \in ScoresOf(calls[k].heuristic_id) :
              LET hs == heuristic_scores[i]
                  scored == calculate_score(hs.violations, hs.heuristic_id)
              IN /\ hs.llm_explanation = None
                 /\ scored.status = "returned"
                 /\ hs.score = scored.score
                 /\ hs.explanation = scored.explanation
         /\ (pc = "failed" => calls[Len(calls)].heuristic_id # calls[k].heuristic_id)
         /\ (pc = "done" => Len(Returned_report.heuristic_scores) = Len(heuristic_ids))

\* a report was returned although the narrative call raised for a heuristic
\* with violations
C17_Witness ==
  /\ report # <<>>
  /\ \E k \in DOMAIN calls :
       /\ ExplainFailed(k)
       /\ \E i \in ScoresOf(calls[k].heuristic_id) :
            /\ heuristic_scores[i].violations # <<>>
            /\ heuristic_scores[i].score < 100

\* the criteria of the catalogue heuristic sc_hid
CriteriaOf(h) ==
  {NIELSEN_HEURISTICS[h].measurable_criteria[i] :
     i \in DOMAIN NIELSEN_HEURISTICS[h].measurable_criteria}

\* violation v names a criterion of heuristic h
Matched(v, h) == \E c \in CriteriaOf(h) : c.id = v.criterion_id

\* the deduction weight of a matched violation: its criterion's weight for
\* its severity, 1 when the weight table lacks the severity
WeightOf(v, h) ==
  LET c == CHOOSE c \in CriteriaOf(h) : c.id = v.criterion_id
  IN IF v.severity \in DOMAIN c.severity_weights THEN c.severity_weights[v.severity] ELSE 1

\* D: the sum of the weights of the matched violations among the first n
RECURSIVE DeductionSum(_, _, _)
DeductionSum(V, h, n) ==
  IF n = 0 THEN 0
  ELSE DeductionSum(V, h, n - 1) + (IF Matched(V[n], h) THEN WeightOf(V[n], h) ELSE 0)

\* C18: for a catalogue heuristic H the score of calculate_score(V, H) is
\* max(0, 100 - D), D being the sum of the deduction weights of the
\* violations of V whose criterion id is a criterion of H.
C18_ScoreIsClampedDeduction ==
  (sc_hid \in DOMAIN NIELSEN_HEURISTICS /\ sc_result # NotCalled)
    => LET D == DeductionSum(sc_violations, sc_hid, Len(sc_violations))
       IN /\ sc_result.status = "returned"
          /\ sc_result.score = (IF D >= 100 THEN 0 ELSE 100 - D)

\* two matched violations of different severities and weights were scored
C18_Witness ==
  /\ sc_hid \in DOMAIN NIELSEN_HEURISTICS
  /\ sc_result.status = "returned"
  /\ Len(sc_violations) = 2
  /\ Matched(sc_violations[1], sc_hid) /\ Matched(sc_violations[2], sc_hid)
  /\ sc_violations[1].severity # sc_violations[2].severity
  /\ WeightOf(sc_violations[1], sc_hid) # WeightOf(sc_violations[2], sc_hid)
  /\ sc_result.score
       = 100 - WeightOf(sc_violations[1], sc_hid) - WeightOf(sc_violations[2], sc_hid)

\* the "{severity}: {description}" items of the matched violations among the
\* first n, in input order, joined with "; "
RECURSIVE ItemsText(_, _, _)
ItemsText(V, h, n) ==
  IF n = 0 THEN ""
  ELSE LET before == ItemsText(V, h, n - 1)
           item == V[n].severity \o ": " \o V[n].description
       IN IF ~Matched(V[n], h) THEN before
          ELSE IF before = "" THEN item
          ELSE before \o "; " \o item

\* C19: the explanation of calculate_score for a catalogue heuristic is
\* "Score {score}/100 - {N} violations: " followed by one
\* "{severity}: {description}" item per matched violation, in input order,
\* joined with "; "; unmatched violations contribute no item.
C19_ExplanationFormat ==
  (sc_hid \in DOMAIN NIELSEN_HEURISTICS /\ sc_result # NotCalled)
    => /\ sc_result.status = "returned"
       /\ sc_result.explanation =
            "Score " \o ToString(sc_result.score) \o "/100 - "
              \o ToString(Len(sc_violations)) \o " violations: "
              \o ItemsText(sc_violations, sc_hid, Len(sc_violations))

\* two matched violations were scored: two items joined by one "; "
C19_Witness ==
  /\ sc_hid = "H4"
  /\ sc_result.status = "returned"
  /\ Len(sc_violations) = 2
  /\ Matched(sc_violations[1], sc_hid)
  /\ Matched(sc_violations[2], sc_hid)
  /\ sc_violations[1].severity = "minor"
  /\ sc_violations[2].severity = "major"
  /\ sc_result.explanation
       = "Score " \o ToString(sc_result.score) \o "/100 - 2 violations: minor: "
           \o sc_violations[1].description \o "; major: " \o sc_violations[2].description

\* the whitespace-split tokens of the lowercased query of kb_call: the
\* maximal runs of characters that are no whitespace
QueryTokens ==
  LET q == Lower(kb_call.query)
      Blank(i) == SubSeq(q, i, i) \in {" ", "\t", "\n"}
  IN {SubSeq(q, i, j) : <<i, j>> \in
        {p \in (1..Len(q)) \X (1..Len(q)) :
           /\ p[1] <= p[2]
           /\ \A k \in p[1]..p[2] : ~Blank(k)
           /\ (p[1] = 1 \/ Blank(p[1] - 1))
           /\ (p[2] = Len(q) \/ Blank(p[2] + 1))}}

\* token is a substring of text
Occurs(token, text) ==
  \E i \in 1..Len(text) :
    i + Len(token) - 1 <= Len(text) /\ SubSeq(text, i, i + Len(token) - 1) = token

\* a filter is supplied with the call of kb_call
FilterSupplied == kb_call.heuristic_id # None /\ kb_call.heuristic_id # ""

\* the relevance the claim gives an entry, for the given query tokens
ClaimedRelevance(tokens, entry) ==
    (IF FilterSupplied /\ entry.heuristic_id = kb_call.heuristic_id THEN 3 ELSE 0)
  + (IF \E t \in tokens : Occurs(t, Lower(entry.content)) THEN 2 ELSE 0)
  + (IF \E t \in tokens : Occurs(t, Lower(entry.category)) THEN 1 ELSE 0)

\* C20: an entry's relevance is +3 for the supplied filter's heuristic id,
\* +2 when any whitespace-split lowercase query token is a substring of the
\* lowercased content, +1 when any is a substring of the lowercased
\* category; with a filter only entries with that heuristic id are
\* considered.  (Every returned entry is an eligible one, and all eligible
\* entries are returned when top_k leaves room.)
C20_RelevanceFormula ==
  kb_call.status = "returned"
    => LET tokens == QueryTokens
           claimed == [n \in DOMAIN knowledge_entries |->
                         ClaimedRelevance(tokens, knowledge_entries[n])]
           eligible == {n \in DOMAIN knowledge_entries :
                          /\ claimed[n] > 0
                          /\ (FilterSupplied
                                => knowledge_entries[n].heuristic_id = kb_call.heuristic_id)}
       IN /\ \A n \in DOMAIN knowledge_entries :
               RelevanceOf(knowledge_entries[n]) = claimed[n]
          /\ \A i \in DOMAIN kb_call.result :
               \E n \in eligible : knowledge_entries[n] = kb_call.result[i]
          /\ \A i \in DOMAIN ConsideredEntries :
               FilterSupplied => ConsideredEntries[i].heuristic_id = kb_call.heuristic_id
          /\ kb_call.top_k > Len(kb_call.result)
               => \A n \in eligible :
                    \E i \in DOMAIN kb_call.result : kb_call.result[i] = knowledge_entries[n]

\* an unfiltered query of several tokens: an entry in which one token
\* occurs and another does not is returned with relevance 3 (content and
\* category), next to an entry of relevance 1 (category only)
C20_Witness ==
  /\ kb_call.status = "returned"
  /\ ~FilterSupplied
  /\ Cardinality(QueryTokens) >= 3
  /\ \E i \in DOMAIN kb_call.result :
       /\ ClaimedRelevance(QueryTokens, kb_call.result[i]) = 3
       /\ \E t \in QueryTokens : ~Occurs(t, Lower(kb_call.result[i].content))
  /\ \E i \in DOMAIN kb_call.result : ClaimedRelevance(QueryTokens, kb_call.result[i]) = 1

\* the position in the knowledge set of the entry returned at place i
PositionOf(i) == CHOOSE n \in DOMAIN knowledge_entries : knowledge_entries[n] = kb_call.result[i]

\* C21: the returned sequence is ordered by relevance descending, and
\* entries of equal relevance keep their relative order in the knowledge
\* set.
C21_SortedStable ==
  kb_call.status = "returned"
    => LET relevance == [i \in DOMAIN kb_call.result |-> RelevanceOf(kb_call.result[i])]
       IN \A i \in DOMAIN kb_call.result : \A j \in DOMAIN kb_call.result :
            i < j => /\ relevance[i] >= relevance[j]
                     /\ (relevance[i] = relevance[j] => PositionOf(i) < PositionOf(j))

\* two entries of equal relevance were returned in their original order,
\* ahead of an entry that stands before them in the knowledge set
C21_Witness ==
  /\ kb_call.status = "returned"
  /\ Len(kb_call.result) >= 3
  /\ RelevanceOf(kb_call.result[1]) = RelevanceOf(kb_call.result[2])
  /\ PositionOf(1) < PositionOf(2)
  /\ RelevanceOf(kb_call.result[2]) > RelevanceOf(kb_call.result[3])
  /\ PositionOf(3) < PositionOf(1)

(***************************************************************************)
(* Properties of one classifier reply (SpecClassifier)                     *)
(***************************************************************************)
ReplyKeys == {"violations", "results", "findings", "issues"}

\* the reply is a bare array, or an object with exactly one of the four keys
\* and an array under it
HoldsOneArray(json) ==
  \/ json.type = "array"
  \/ /\ json.type = "object"
     /\ Cardinality(ReplyKeys \cap DOMAIN json.members) = 1
     /\ \A k \in ReplyKeys \cap DOMAIN json.members : json.members[k].type = "array"

ArrayHeld(json) ==
  IF json.type = "array" THEN json.items
  ELSE json.members[CHOOSE k \in ReplyKeys \cap DOMAIN json.members : TRUE].items

\* every item is an object whose severity, if any, is a string
ItemsUsable(items) ==
  \A i \in DOMAIN items :
    /\ items[i].type = "object"
    /\ "severity" \in DOMAIN items[i].members => items[i].members.severity.type = "string"

\* the level a severity spelling names when letter case is ignored
LevelSpelled(s) ==
  IF s \in {"critical", "Critical", "CRITICAL"} THEN "critical"
  ELSE IF s \in {"major", "Major", "MAJOR"} THEN "major"
  ELSE IF s \in {"minor", "Minor", "MINOR"} THEN "minor"
  ELSE IF s \in {"cosmetic", "Cosmetic", "COSMETIC"} THEN "cosmetic"
  ELSE "none"

\* C22: every violation built from a classifier reply has one of the four
\* severities; an item's severity string names its level whatever its letter
\* case, a string that names no level or a missing severity gives minor, and
\* the item is converted all the same
C22_SeverityIsALevel ==
  /\ cl_result.status = "returned"
       => \A i \in DOMAIN cl_result.violations :
            cl_result.violations[i].severity \in {"critical", "major", "minor", "cosmetic"}
  /\ (cl_call.outcome = "content" /\ HoldsOneArray(cl_call.json)
        /\ ItemsUsable(ArrayHeld(cl_call.json)))
       => LET items == ArrayHeld(cl_call.json)
          IN /\ cl_result.status = "returned"
             /\ Len(cl_result.violations) = Len(items)
             /\ \A i \in DOMAIN items :
                  LET level == IF "severity" \in DOMAIN items[i].members
                               THEN LevelSpelled(items[i].members.severity.value)
                               ELSE "none"
                  IN cl_result.violations[i].severity
                       = (IF level = "none" THEN "minor" ELSE level)

\* a reply with one item per spelling was converted: "Critical" and "MAJOR"
\* gave their levels, "blocker" and the empty string gave minor
C22_Witness ==
  /\ cl_result.status = "returned"
  /\ cl_call.outcome = "content"
  /\ cl_call.json.type = "array"
  /\ Len(cl_result.violations) = 8
  /\ cl_call.json.items[2].members.severity.value = "Critical"
  /\ cl_result.violations[2].severity = "critical"
  /\ cl_call.json.items[3].members.severity.value = "MAJOR"
  /\ cl_result.violations[3].severity = "major"
  /\ cl_call.json.items[6].members.severity.value = "blocker"
  /\ cl_result.violations[6].severity = "minor"
  /\ cl_result.violations[7].severity = "minor"

\* the string under `key` of an item, or `default` when the item has no such key
FieldOr(item, key, default) ==
  IF key \in DOMAIN item.members THEN item.members[key].value ELSE default

\* C23: a reply that is a bare array, or an object with an array under one of
\* the keys violations, results, findings, issues, is accepted, and the
\* violations returned are those of that array, item by item
C23_ArrayOrWrapped ==
  (cl_call.outcome = "content" /\ HoldsOneArray(cl_call.json)
     /\ ItemsUsable(ArrayHeld(cl_call.json)))
    => LET items == ArrayHeld(cl_call.json)
       IN /\ cl_result.status = "returned"
          /\ cl_result.error = None
          /\ DOMAIN cl_result.violations = DOMAIN items
          /\ \A i \in DOMAIN items :
               /\ cl_result.violations[i].heuristic_id = cl_hid
               /\ cl_result.violations[i].description
                    = FieldOr(items[i], "description", "Unspecified violation")
               /\ cl_result.violations[i].criterion_id
                    = FieldOr(items[i], "criterion_id", cl_hid \o ".0")

\* an object with its array under "findings" gave the two violations of the array
C23_Witness ==
  /\ cl_call.outcome = "content"
  /\ cl_call.json.type = "object"
  /\ "findings" \in DOMAIN cl_call.json.members
  /\ cl_result.status = "returned"
  /\ Len(cl_result.violations) = 2
  /\ cl_result.violations[1].description = "Label uses internal jargon"
  /\ cl_result.violations[2].description = "Icon is slightly off centre"

\* the reply parses but is neither an array nor an object with an array
\* under one of the four keys
ParsedWrongShape(json) ==
  \/ json.type \in {"string", "number"}
  \/ /\ json.type = "object"
     /\ \/ ReplyKeys \cap DOMAIN json.members = {}
        \/ /\ Cardinality(ReplyKeys \cap DOMAIN json.members) = 1
           /\ \A k \in ReplyKeys \cap DOMAIN json.members : json.members[k].type # "array"

\* C28: a reply that is no JSON makes the classifier call fail with "AI
\* Service Unavailable" and is never returned as an empty list of violations;
\* a reply that parses but has the wrong shape is returned as an empty list
C28_UnparseableIsFailure ==
  /\ (cl_call.outcome = "content" /\ cl_call.json.type = "invalid")
       => /\ cl_result.status = "raised"
          /\ cl_result.error = "ValueError: AI Service Unavailable"
  /\ (cl_call.outcome = "content" /\ ParsedWrongShape(cl_call.json))
       => /\ cl_result.status = "returned"
          /\ cl_result.violations = <<>>
          /\ cl_result.error = None

\* a reply that is no JSON was given and the call raised
C28_Witness ==
  /\ cl_call.outcome = "content"
  /\ cl_call.json.type = "invalid"
  /\ cl_result.status = "raised"

(***************************************************************************)
(* Properties of the order of calls within evaluate_interface (SpecEngine) *)
(***************************************************************************)
\* C24: when the context retrieval of a heuristic fails, the classifier is
\* called for that heuristic all the same, with no context examples in its
\* prompt, and unless the classifier call itself fails the heuristic is scored
C24_RetrievalFailureTolerated ==
  \A i \in DOMAIN calls :
    (calls[i].op = "retrieve" /\ calls[i].outcome = "raises")
      => /\ i + 1 \in DOMAIN calls
         /\ calls[i + 1].op = "classify"
         /\ calls[i + 1].heuristic_id = calls[i].heuristic_id
         /\ calls[i + 1].examples = 0
         /\ calls[i + 1].outcome \in {"list", "not_a_list"}
              => \E k \in DOMAIN heuristic_scores :
                   /\ heuristic_scores[k].heuristic_id = calls[i].heuristic_id
                   /\ heuristic_scores[k].score \in 0..100

\* the retrieval of a heuristic failed, the classifier reported violations
\* and the heuristic was scored below 100
C24_Witness ==
  \E i \in DOMAIN calls : \E k \in DOMAIN heuristic_scores :
    /\ i + 1 \in DOMAIN calls
    /\ calls[i].op = "retrieve"
    /\ calls[i].outcome = "raises"
    /\ calls[i + 1].op = "classify"
    /\ calls[i + 1].outcome = "list"
    /\ heuristic_scores[k].heuristic_id = calls[i].heuristic_id
    /\ heuristic_scores[k].violations # <<>>
    /\ heuristic_scores[k].score < 100

Catalogue == <<"H1", "H2", "H3", "H4", "H5", "H6", "H7", "H8", "H9", "H10">>
Steps == <<"retrieve", "classify", "explain">>

\* C25: the external calls of one evaluate_interface call come heuristic by
\* heuristic in catalogue order, for each heuristic in the order retrieve,
\* classify, narrative, the narrative only for a heuristic already scored;
\* no heuristic has more than one classifier call, and after a failed
\* classifier call no further call is made
C25_StepOrder ==
  /\ \A i \in DOMAIN calls :
       /\ calls[i].op = Steps[((i - 1) % 3) + 1]
       /\ calls[i].heuristic_id = Catalogue[((i - 1) \div 3) + 1]
       /\ calls[i].op = "explain"
            => /\ (i \div 3) \in DOMAIN heuristic_scores
               /\ heuristic_scores[i \div 3].heuristic_id = calls[i].heuristic_id
       /\ (calls[i].op = "classify" /\ calls[i].outcome \in {"raises", "invalid_json"})
            => i = Len(calls)
  /\ \A i \in DOMAIN calls : \A j \in DOMAIN calls :
       (i # j /\ calls[i].op = "classify" /\ calls[j].op = "classify")
         => calls[i].heuristic_id # calls[j].heuristic_id
  /\ Len(heuristic_scores) = Len(calls) \div 3

\* all ten heuristics were evaluated: thirty calls, ten of them classifier calls
C25_Witness ==
  /\ pc = "done"
  /\ Len(calls) = 30
  /\ calls[28].op = "retrieve" /\ calls[28].heuristic_id = "H10"
  /\ calls[29].op = "classify" /\ calls[29].heuristic_id = "H10"
  /\ calls[30].op = "explain" /\ calls[30].heuristic_id = "H10"
  /\ Cardinality({i \in DOMAIN calls : calls[i].op = "classify"}) = 10

\* the violations of hs that carry the default criterion id
Defaulted(hs) ==
  {i \in DOMAIN hs.violations : hs.violations[i].criterion_id = hs.heuristic_id \o ".0"}

RECURSIVE CountAll(_, _)
CountAll(scores, n) ==
  IF n = 0 THEN 0 ELSE CountAll(scores, n - 1) + Len(scores[n].violations)

RECURSIVE CountAllCritical(_, _)
CountAllCritical(scores, n) ==
  IF n = 0 THEN 0
  ELSE CountAllCritical(scores, n - 1)
         + Cardinality({i \in DOMAIN scores[n].violations :
                          scores[n].violations[i].severity = "critical"})

\* C26: a violation reported without criterion_id carries "<heuristic id>.0",
\* which is the id of no criterion of the catalogue; a heuristic all of whose
\* violations carry that id keeps the score 100, while the totals count every
\* violation of every heuristic, those included
C26_DefaultCriterionCountsButNotScores ==
  /\ \A h \in DOMAIN NIELSEN_HEURISTICS :
       \A k \in DOMAIN NIELSEN_HEURISTICS[h].measurable_criteria :
         NIELSEN_HEURISTICS[h].measurable_criteria[k].id # h \o ".0"
  /\ \A k \in DOMAIN heuristic_scores :
       LET hs == heuristic_scores[k]
       IN /\ \A i \in DOMAIN hs.violations :
               hs.violations[i].description = "Flow cannot be left"
                 => i \in Defaulted(hs)
          /\ Defaulted(hs) = DOMAIN hs.violations => hs.score = 100
  /\ total_violations = CountAll(heuristic_scores, Len(heuristic_scores))
  /\ critical_issues = CountAllCritical(heuristic_scores, Len(heuristic_scores))
  /\ report # <<>>
       => /\ report[1].total_violations
               = CountAll(report[1].heuristic_scores, Len(report[1].heuristic_scores))
          /\ report[1].critical_issues
               = CountAllCritical(report[1].heuristic_scores, Len(report[1].heuristic_scores))

\* a report with a critical issue counted for a heuristic whose score is 100
C26_Witness ==
  /\ report # <<>>
  /\ report[1].critical_issues >= 1
  /\ report[1].total_violations >= 1
  /\ \E k \in DOMAIN report[1].heuristic_scores :
       LET hs == report[1].heuristic_scores[k]
       IN /\ hs.score = 100
          /\ \E i \in Defaulted(hs) : hs.violations[i].severity = "critical"

\* C27: once the classifier call of a heuristic has failed, evaluate_interface
\* has ended with the classifier's error and no report, not even one of the
\* heuristics scored before, and no call follows the failed one
C27_FailureEndsEvaluation ==
  /\ \A i \in DOMAIN calls :
       (calls[i].op = "classify" /\ calls[i].outcome \in {"raises", "invalid_json"})
         => /\ pc = "failed"
            /\ report = <<>>
            /\ ev_error = "ValueError: AI Service Unavailable"
            /\ \A j \in DOMAIN calls : j <= i
  /\ pc = "failed"
       => /\ report = <<>>
          /\ calls # <<>>
          /\ calls[Len(calls)].op = "classify"
          /\ calls[Len(calls)].outcome \in {"raises", "invalid_json"}
  /\ report # <<>> => Len(report[1].heuristic_scores) = 10

\* the classifier call failed for a later heuristic after earlier ones had
\* been scored, and there is no report
C27_Witness ==
  /\ pc = "failed"
  /\ report = <<>>
  /\ Len(heuristic_scores) >= 2
  /\ Len(heuristic_scores) < 10
  /\ calls[Len(calls)].op = "classify"
  /\ calls[Len(calls)].heuristic_id = Catalogue[Len(heuristic_scores) + 1]

(***************************************************************************)
(* Properties of the entry ids of the knowledge set (SpecKB)               *)
(***************************************************************************)
\* n written with three digits, for n below 1000
ThreeDigits(n) ==
  ToString(n \div 100) \o ToString((n \div 10) % 10) \o ToString(n % 10)

\* C29: whatever initialize and add_expert_feedback calls were made, the
\* entry at position n of knowledge_entries has the id "kb_" followed by n in
\* three digits, so an entry appended to n entries has the number n + 1, and
\* no two entries share an id
C29_IdsDistinct ==
  /\ \A n \in DOMAIN knowledge_entries :
       knowledge_entries[n].id = "kb_" \o ThreeDigits(n)
  /\ \A i \in DOMAIN knowledge_entries : \A j \in DOMAIN knowledge_entries :
       i # j => knowledge_entries[i].id # knowledge_entries[j].id

\* feedback was appended to the twelve seed entries and got the id kb_013
C29_Witness ==
  /\ index_initialized
  /\ kb_added >= 1
  /\ Len(knowledge_entries) = 13
  /\ knowledge_entries[13].source = "expert_validation"
  /\ knowledge_entries[13].id = "kb_013"
  /\ knowledge_entries[12].id = "kb_012"

(***************************************************************************)
(* The violation count of the explanation (SpecScorer)                     *)
(***************************************************************************)
\* the violations of the list whose criterion id matches a criterion
MatchedIn(V, h) == {i \in DOMAIN V : Matched(V[i], h)}

\* C30: the explanation of a catalogue heuristic starts with
\* "Score {score}/100 - {N} violations: " where N is the length of the whole
\* list given to calculate_score, unmatched violations included, so N is never
\* below the number of violations that get an item
C30_CountIsAllViolations ==
  (sc_hid \in DOMAIN NIELSEN_HEURISTICS /\ sc_result # NotCalled)
    => LET prefix == "Score " \o ToString(sc_result.score) \o "/100 - "
                       \o ToString(Len(sc_violations)) \o " violations: "
       IN /\ sc_result.status = "returned"
          /\ Len(sc_result.explanation) >= Len(prefix)
          /\ SubSeq(sc_result.explanation, 1, Len(prefix)) = prefix
          /\ Cardinality(MatchedIn(sc_violations, sc_hid)) <= Len(sc_violations)
          /\ MatchedIn(sc_violations, sc_hid) = {}
               => sc_result.explanation = prefix

\* two violations were given, one of them unmatched: N is 2 and one item follows
C30_Witness ==
  /\ sc_hid \in DOMAIN NIELSEN_HEURISTICS
  /\ sc_result.status = "returned"
  /\ Len(sc_violations) = 2
  /\ Cardinality(MatchedIn(sc_violations, sc_hid)) = 1
  /\ \E i \in MatchedIn(sc_violations, sc_hid) :
       sc_result.explanation
         = "Score " \o ToString(sc_result.score) \o "/100 - 2 violations: "
             \o sc_violations[i].severity \o ": " \o sc_violations[i].description


====
